---- MODULE Spec2Model ----
(***************************************************************************)
(* The English -> Enochian translation engine (class Translator of         *)
(* src/unnamed/part_010), as a state machine: an engine instance built     *)
(* from a lexicon and a root table, and calls of translate(text, options). *)
(*                                                                         *)
(* A JavaScript string is a sequence of one-character strings; a JS Map    *)
(* or plain object is a sequence of <<key, value>> pairs in insertion      *)
(* order (keys unique); a value that may be `undefined` is a sequence of    *)
(* length 0 or 1, and a missing string is the empty (falsy) string.        *)
(***************************************************************************)
EXTENDS Integers, Sequences, FiniteSets, TLC

\* ------------------------------------------------------------------------
\* Strings
\* ------------------------------------------------------------------------

\* A string literal as a sequence of characters.
S(s) == [i \in 1..Len(s) |-> SubSeq(s, i, i)]

LowerLetters == S("abcdefghijklmnopqrstuvwxyz")
UpperLetters == S("ABCDEFGHIJKLMNOPQRSTUVWXYZ")
LowerSet == {LowerLetters[i] : i \in 1..26}
UpperSet == {UpperLetters[i] : i \in 1..26}

LowerOf == [c \in UpperSet |-> LowerLetters[CHOOSE i \in 1..26 : UpperLetters[i] = c]]
UpperOf == [c \in LowerSet |-> UpperLetters[CHOOSE i \in 1..26 : LowerLetters[i] = c]]

\* String.prototype.toLowerCase / toUpperCase, character by character.
LowerChar(c) == IF c \in UpperSet THEN LowerOf[c] ELSE c
UpperChar(c) == IF c \in LowerSet THEN UpperOf[c] ELSE c
ToLower(s) == [i \in 1..Len(s) |-> LowerChar(s[i])]

\* /[a-z]/i on one character.
IsLetter(c) == c \in LowerSet \/ c \in UpperSet

\* \w of a JS regular expression (ASCII letters, digits, underscore).
IsWordChar(c) == IsLetter(c) \/ c \in {"0","1","2","3","4","5","6","7","8","9","_"}

\* A variant of \s that knows the blank only, as in text.split(' ').
IsBlankOnly(c) == c = " "

\* \s of a JS regular expression, and the characters trim() removes.
IsSpace(c) == c \in {" ", "\t", "\n", "\r"}

\* The punctuation class [.,;:!?'"()-] of translateWord.
IsPunct(c) == c \in {".", ",", ";", ":", "!", "?", "'", "\"", "(", ")", "-"}

\* s.slice(from) for 0-based `from` (the characters after the first `from`).
Drop(s, n) == IF n >= Len(s) THEN <<>> ELSE SubSeq(s, n + 1, Len(s))
\* s.slice(0, n)
Take(s, n) == IF n >= Len(s) THEN s ELSE SubSeq(s, 1, n)

StartsWith(s, p) == Len(p) <= Len(s) /\ SubSeq(s, 1, Len(p)) = p
EndsWith(s, p) == Len(p) <= Len(s) /\ SubSeq(s, Len(s) - Len(p) + 1, Len(s)) = p

\* s.includes(p)
Includes(s, p) ==
  Len(p) <= Len(s) /\ \E i \in 0..(Len(s) - Len(p)) : SubSeq(s, i + 1, i + Len(p)) = p

RECURSIVE TrimStart(_)
TrimStart(s) == IF s # <<>> /\ IsSpace(s[1]) THEN TrimStart(Tail(s)) ELSE s

RECURSIVE TrimEnd(_)
TrimEnd(s) ==
  IF s # <<>> /\ IsSpace(s[Len(s)]) THEN TrimEnd(SubSeq(s, 1, Len(s) - 1)) ELSE s

\* String.prototype.trim
Trim(s) == TrimEnd(TrimStart(s))

\* s.replace(/\s+/g, ' '): every maximal run of whitespace becomes one space.
RECURSIVE CollapseSpaces(_)
CollapseSpaces(s) ==
  IF s = <<>> THEN <<>>
  ELSE IF IsSpace(s[1])
       THEN <<" ">> \o CollapseSpaces(TrimStart(s))
       ELSE <<s[1]>> \o CollapseSpaces(Tail(s))

\* s.split(sep) for a one-character separator: the pieces between separators,
\* empty pieces included.
RECURSIVE SplitAcc(_, _, _)
SplitAcc(s, seps, cur) ==
  IF s = <<>> THEN <<cur>>
  ELSE IF s[1] \in seps
       THEN <<cur>> \o SplitAcc(Tail(s), seps, <<>>)
       ELSE SplitAcc(Tail(s), seps, Append(cur, s[1]))

SplitOn(s, seps) == SplitAcc(s, seps, <<>>)

\* s.split(/\s+/): the pieces between maximal runs of whitespace.
SplitSpaces(s) == SplitOn(CollapseSpaces(s), {" "})

\* parts.join(sep)
RECURSIVE Join(_, _)
Join(parts, sep) ==
  IF parts = <<>> THEN <<>>
  ELSE IF Len(parts) = 1 THEN parts[1]
  ELSE parts[1] \o sep \o Join(Tail(parts), sep)

\* array.filter(pred) for a set of kept values given as a predicate result.
RECURSIVE NonEmpty(_)
NonEmpty(parts) ==
  IF parts = <<>> THEN <<>>
  ELSE IF parts[1] = <<>> THEN NonEmpty(Tail(parts))
  ELSE <<parts[1]>> \o NonEmpty(Tail(parts))

\* ------------------------------------------------------------------------
\* Insertion-ordered maps (JS Map / plain object with non-numeric keys)
\* ------------------------------------------------------------------------

MapHas(m, k) == \E i \in 1..Len(m) : m[i][1] = k
\* map.get(k); a missing key gives the empty sequence (undefined: falsy, like '').
MapGet(m, k) ==
  IF MapHas(m, k) THEN m[CHOOSE i \in 1..Len(m) : m[i][1] = k][2] ELSE <<>>
\* map.set(k, v): an existing key keeps its place.
MapSet(m, k, v) ==
  IF MapHas(m, k)
  THEN [i \in 1..Len(m) |-> IF m[i][1] = k THEN <<k, v>> ELSE m[i]]
  ELSE Append(m, <<k, v>>)
MapKeys(m) == [i \in 1..Len(m) |-> m[i][1]]

\* ------------------------------------------------------------------------
\* Stemmer
\* ------------------------------------------------------------------------

stemWord(w) ==
  LET Stem(word) ==
        IF Len(word) <= 3 THEN word
        ELSE IF EndsWith(word, S("s")) /\ ~EndsWith(word, S("ss")) THEN Take(word, Len(word) - 1)
        ELSE IF EndsWith(word, S("ing")) THEN Take(word, Len(word) - 3)
        ELSE IF EndsWith(word, S("ed")) THEN Take(word, Len(word) - 2)
        ELSE IF EndsWith(word, S("ly")) THEN Take(word, Len(word) - 2)
        ELSE word
  IN  Stem(Trim(ToLower(w)))

\* ------------------------------------------------------------------------
\* The engine: source tables and the indices built from them
\* ------------------------------------------------------------------------

VARIABLES
  lexiconData,       \* Array<EnochianWord>: [word, meaning]
  rootData,          \* Array<EnochianRoot>: [english_letter, enochian_name, symbol]
  enochianLetterMap, \* letter -> [name, symbol]
  meaningToWordMap,  \* meaning -> word
  wordToMeaningMap,  \* word -> meanings
  stemMap,           \* stem -> words
  phraseMap,         \* meaning -> word
  pc,                \* "idle" | "called" | "done"
  text,              \* the argument of the call in progress
  opts,              \* its options, defaults applied
  result,            \* the TranslationResult returned (or the exception thrown)
  first              \* an earlier completed call <<[text, opts, result]>>, or <<>>

engine == <<lexiconData, rootData, enochianLetterMap, meaningToWordMap,
            wordToMeaningMap, stemMap, phraseMap>>
vars == <<lexiconData, rootData, enochianLetterMap, meaningToWordMap,
          wordToMeaningMap, stemMap, phraseMap, pc, text, opts, result, first>>

\* meaning.replace(/^-\s*/, ''): a leading dash and the whitespace after it.
StripLeadingDash(s) ==
  IF s # <<>> /\ s[1] = "-" THEN TrimStart(Tail(s)) ELSE s

\* The index of the first ")" of s that a "(" at position 1 pairs with under
\* /\(.*?\)/ ('.' does not cross a line terminator), or 0.
RECURSIVE CloseParen(_, _)
CloseParen(s, i) ==
  IF i > Len(s) THEN 0
  ELSE IF s[i] = ")" THEN i
  ELSE IF s[i] \in {"\n", "\r"} THEN 0
  ELSE CloseParen(s, i + 1)

\* meaning.replace(/\(.*?\)/g, '')
RECURSIVE StripParens(_)
StripParens(s) ==
  IF s = <<>> THEN <<>>
  ELSE IF s[1] = "(" /\ CloseParen(s, 2) > 0
       THEN StripParens(Drop(s, CloseParen(s, 2)))
       ELSE <<s[1]>> \o StripParens(Tail(s))

cleanedMeaning(meaning) == Trim(StripParens(StripLeadingDash(ToLower(meaning))))

\* cleanedMeaning.split(/,|;/), each part trimmed, the empty ones skipped.
RECURSIVE TrimAll(_)
TrimAll(parts) ==
  IF parts = <<>> THEN <<>> ELSE <<Trim(parts[1])>> \o TrimAll(Tail(parts))

meaningParts(meaning) == NonEmpty(TrimAll(SplitOn(cleanedMeaning(meaning), {",", ";"})))

\* stemMap.get(stem).push(word), creating the list first when the stem is new.
StemPush(sm, stem, word) ==
  MapSet(sm, stem, IF MapHas(sm, stem) THEN Append(MapGet(sm, stem), word) ELSE <<word>>)

\* The forEach over trimmedMeaning.split(' '): every sub-word longer than 2
\* characters registers the entry's word under its stem.
RECURSIVE StemSubWords(_, _, _)
StemSubWords(sm, subs, word) ==
  IF subs = <<>> THEN sm
  ELSE LET Push(wordStem) ==
             IF Len(subs[1]) > 2 /\ wordStem # <<>> THEN StemPush(sm, wordStem, word) ELSE sm
       IN  StemSubWords(Push(stemWord(subs[1])), Tail(subs), word)

\* What one trimmed meaning adds to the stem map.
StemOfMeaning(sm, m, word) ==
  LET WithStem(stem) == IF stem # <<>> /\ stem # m THEN StemPush(sm, stem, word) ELSE sm
      WithSubWords(sm1) ==
        IF Includes(m, S(" ")) THEN StemSubWords(sm1, SplitOn(m, {" "}), word) ELSE sm1
  IN  WithSubWords(WithStem(stemWord(m)))

\* A variant of AddMeanings in which the first entry listing a meaning keeps
\* it, as with `if (!map.has(m)) map.set(m, word)`.
RECURSIVE AddMeaningsFirstWins(_, _, _)
AddMeaningsFirstWins(idx, parts, word) ==
  IF parts = <<>> THEN idx
  ELSE LET m == parts[1] IN
       AddMeaningsFirstWins(
         [m2w |-> IF MapHas(idx.m2w, m) THEN idx.m2w ELSE MapSet(idx.m2w, m, word),
          phr |-> IF MapHas(idx.phr, m) THEN idx.phr ELSE MapSet(idx.phr, m, word),
          stm |-> StemOfMeaning(idx.stm, m, word),
          w2m |-> idx.w2m],
         Tail(parts), word)

\* The indices after the meanings `parts` of one entry were added.
RECURSIVE AddMeanings(_, _, _)
AddMeanings(idx, parts, word) ==
  IF parts = <<>> THEN idx
  ELSE LET m == parts[1] IN
       AddMeanings([m2w |-> MapSet(idx.m2w, m, word),
                    phr |-> MapSet(idx.phr, m, word),
                    stm |-> StemOfMeaning(idx.stm, m, word),
                    w2m |-> idx.w2m],
                   Tail(parts), word)

\* lexiconData.forEach(...) of initializeMaps.
RECURSIVE AddEntries(_, _)
AddEntries(idx, entries) ==
  IF entries = <<>> THEN idx
  ELSE LET Step(parts) ==
             [AddMeanings(idx, parts, entries[1].word)
                EXCEPT !.w2m = MapSet(@, entries[1].word, parts)]
       IN  AddEntries(Step(meaningParts(entries[1].meaning)), Tail(entries))

\* The reduce over rootData: letter -> {name, symbol}, a later root overwriting
\* an earlier one with the same letter, a root without a letter skipped.
RECURSIVE BuildLetterMap(_, _)
BuildLetterMap(map, roots) ==
  IF roots = <<>> THEN map
  ELSE LET root == roots[1]
           letter == ToLower(root.english_letter)
       IN  BuildLetterMap(IF letter # <<>>
                          THEN MapSet(map, letter, [name |-> root.enochian_name, symbol |-> root.symbol])
                          ELSE map,
                          Tail(roots))

initializeMaps(lexicon, roots) ==
  LET Indices(idx) ==
        [letterMap |-> BuildLetterMap(<<>>, roots),
         m2w |-> idx.m2w, w2m |-> idx.w2m, stm |-> idx.stm, phr |-> idx.phr]
  IN  Indices(AddEntries([m2w |-> <<>>, phr |-> <<>>, stm |-> <<>>, w2m |-> <<>>], lexicon))

\* ------------------------------------------------------------------------
\* Root table lookups and the renderer
\* ------------------------------------------------------------------------

\* The value of a string expression whose evaluation threw (a TypeError or a
\* SyntaxError propagating out of translate): no string holds this character.
Thrown == <<"THROWN">>

\* this.rootData.find(root => root.english_letter.toLowerCase() === letter.toLowerCase())
findRootForLetter(letter) ==
  LET hits == {i \in 1..Len(rootData) : ToLower(rootData[i].english_letter) = ToLower(letter)}
  IN  IF hits = {} THEN <<>> ELSE <<rootData[CHOOSE i \in hits : \A j \in hits : i <= j]>>

\* this.rootData.find(root => root.enochian_name === word)
findRootByName(word) ==
  LET hits == {i \in 1..Len(rootData) : rootData[i].enochian_name = word}
  IN  IF hits = {} THEN <<>> ELSE <<rootData[CHOOSE i \in hits : \A j \in hits : i <= j]>>

IsBracketed(word) == StartsWith(word, S("[")) /\ EndsWith(word, S("]"))

\* Array.from(word.toLowerCase()).map(...): a letter of the letter map becomes
\* its name (its symbol), any other character stays.
LetterNames(word) ==
  [i \in 1..Len(word) |->
     LET char == LowerChar(word[i]) IN
     IF IsLetter(char) /\ MapHas(enochianLetterMap, <<char>>)
     THEN MapGet(enochianLetterMap, <<char>>).name ELSE <<char>>]

LetterSymbols(word) ==
  [i \in 1..Len(word) |->
     LET char == LowerChar(word[i]) IN
     IF IsLetter(char) /\ MapHas(enochianLetterMap, <<char>>)
     THEN MapGet(enochianLetterMap, <<char>>).symbol ELSE <<char>>]

RECURSIVE convertToPhonetic(_)
convertToPhonetic(word) ==
  IF IsBracketed(word) THEN word
  ELSE IF findRootByName(word) # <<>> THEN word
  ELSE IF StartsWith(word, S("G-"))
       THEN S("Ged") \o S("-") \o convertToPhonetic(Drop(word, 2))
  ELSE Join(LetterNames(word), S("-"))

\* this.enochianLetterMap['g'].symbol is a TypeError when the root table has
\* no letter g.
RECURSIVE convertToSymbols(_)
convertToSymbols(word) ==
  IF IsBracketed(word) THEN word
  ELSE IF findRootByName(word) # <<>> THEN findRootByName(word)[1].symbol
  ELSE IF StartsWith(word, S("G-"))
       THEN IF ~MapHas(enochianLetterMap, S("g")) THEN Thrown
            ELSE LET baseSymbols == convertToSymbols(Drop(word, 2)) IN
                 IF baseSymbols = Thrown THEN Thrown
                 ELSE MapGet(enochianLetterMap, S("g")).symbol \o S("-") \o baseSymbols
  ELSE Join(LetterSymbols(word), <<>>)

\* Array.from(word.toLowerCase()).filter(letter).map(letter => {letter, root})
RECURSIVE LetterRoots(_)
LetterRoots(word) ==
  IF word = <<>> THEN <<>>
  ELSE LET char == LowerChar(word[1]) IN
       IF IsLetter(char)
       THEN <<[letter |-> <<char>>, root |-> findRootForLetter(<<char>>)]>> \o LetterRoots(Tail(word))
       ELSE LetterRoots(Tail(word))

\* A variant of analyzeRoots that analyses every character of the word, the
\* hyphen of a compound included.
analyzeRootsEveryChar(word) ==
  [i \in 1..Len(word) |->
     [letter |-> <<LowerChar(word[i])>>, root |-> findRootForLetter(<<LowerChar(word[i])>>)]]

RECURSIVE analyzeRoots(_)
analyzeRoots(word) ==
  IF StartsWith(word, S("G-"))
  THEN <<[letter |-> S("g"), root |-> findRootForLetter(S("g"))]>> \o analyzeRoots(Drop(word, 2))
  ELSE IF findRootByName(word) # <<>>
       THEN <<[letter |-> word, root |-> findRootByName(word)]>>
  ELSE LetterRoots(word)

\* ------------------------------------------------------------------------
\* Phrase matcher
\* ------------------------------------------------------------------------

\* An explanation string: the template it is built from and the values
\* interpolated into it, in order.
Explain(kind, args) == [kind |-> kind, args |-> args]

\* a/b > c/d for non-negative a, c and positive b, d.
ScoreGreater(a, b, c, d) == a * d > c * b

\* The first loop of findFuzzyPhraseMatch: the first phrase equal to the text,
\* compared in lower case.
ExactPhrase(t) ==
  LET hits == {i \in 1..Len(phraseMap) : ToLower(phraseMap[i][1]) = ToLower(t)}
  IN  IF hits = {} THEN <<>> ELSE <<phraseMap[CHOOSE i \in hits : \A j \in hits : i <= j]>>

\* The second loop: the best-scoring multi-word phrase that contains the text
\* or is contained in it; a later phrase replaces the best only when strictly
\* better.  best = [num, den, match, word], num = 0 while there is none.
RECURSIVE BestPhrase(_, _, _)
BestPhrase(t, i, best) ==
  IF i > Len(phraseMap) THEN best
  ELSE LET phrase == phraseMap[i][1]
           word == phraseMap[i][2]
           inText == Includes(ToLower(t), ToLower(phrase))
           inPhrase == Includes(ToLower(phrase), ToLower(t))
           num == IF inText THEN Len(phrase) ELSE Len(t)
           den == IF inText THEN Len(t) ELSE Len(phrase)
       IN  IF Includes(phrase, S(" ")) /\ (inText \/ inPhrase)
              /\ ScoreGreater(num, den, best.num, best.den)
           THEN BestPhrase(t, i + 1, [num |-> num, den |-> den, match |-> phrase, word |-> word])
           ELSE BestPhrase(t, i + 1, best)

\* bestScore > 0.7
PhraseThresholdNum == 7
PhraseThresholdDen == 10

findFuzzyPhraseMatch(t) ==
  LET Closest(best) ==
        IF best.match # <<>> /\ best.word # <<>>
           /\ ScoreGreater(best.num, best.den, PhraseThresholdNum, PhraseThresholdDen)
        THEN <<[match |-> best.match, enochianWord |-> best.word,
                explanation |-> Explain("Phrase match found", <<t, best.match, best.word>>)]>>
        ELSE <<>>
      Exact(hit) ==
        IF hit # <<>>
        THEN <<[match |-> hit[1][1], enochianWord |-> hit[1][2],
                explanation |-> Explain("Complete phrase match", <<t, hit[1][2]>>)]>>
        ELSE Closest(BestPhrase(t, 1, [num |-> 0, den |-> 1, match |-> <<>>, word |-> <<>>]))
  IN  Exact(ExactPhrase(t))

ZeroStats == [direct |-> 0, partial |-> 0, missing |-> 0, constructed |-> 0, total |-> 0]

\* A value translate returns.  threw = TRUE stands for an exception leaving
\* translate instead of a result.
Result(tt, ph, sy, st, wa, cd, pm) ==
  [threw |-> FALSE, translationText |-> tt, phoneticText |-> ph, symbolText |-> sy,
   stats |-> st, wordAnalysis |-> wa, constructionDetails |-> cd, phraseMatches |-> pm]

ThrownResult ==
  [threw |-> TRUE, translationText |-> <<>>, phoneticText |-> <<>>, symbolText |-> <<>>,
   stats |-> ZeroStats, wordAnalysis |-> <<>>, constructionDetails |-> <<>>,
   phraseMatches |-> <<>>]

\* A variant of the empty result that counts the empty string as one word, as
\* ''.split(/\s+/).length does.
createEmptyResultCounted ==
  [threw |-> FALSE, translationText |-> <<>>, phoneticText |-> <<>>, symbolText |-> <<>>,
   stats |-> [ZeroStats EXCEPT !.total = 1], wordAnalysis |-> <<>>,
   constructionDetails |-> <<>>, phraseMatches |-> <<>>]

createEmptyResult == Result(<<>>, <<>>, <<>>, ZeroStats, <<>>, <<>>, <<>>)

\* One constructionDetails value.
Detail(original, res, method, explanation, originalRoots) ==
  [original |-> original, result |-> res, method |-> method,
   explanation |-> explanation, originalRoots |-> originalRoots]

createPhraseMatchResult(originalText, enochianWord, explanation) ==
  LET Build(symbols) ==
        IF symbols = Thrown THEN ThrownResult
        ELSE Result(enochianWord,
                    convertToPhonetic(enochianWord),
                    symbols,
                    [direct |-> 1, partial |-> 0, missing |-> 0, constructed |-> 0, total |-> 1],
                    <<<<enochianWord, analyzeRoots(enochianWord)>>>>,
                    <<<<originalText,
                        Detail(originalText, enochianWord, "direct", explanation, <<>>)>>>>,
                    <<<<originalText, enochianWord>>>>)
  IN  Build(convertToSymbols(enochianWord))

\* The result of the whole-input phrase match, or <<>> (null).
checkForPhraseMatch(t) ==
  IF Len(t) = 1 /\ IsLetter(t[1]) THEN <<>>
  ELSE LET Found(phraseMatch) ==
             IF phraseMatch # <<>>
             THEN <<createPhraseMatchResult(t, phraseMatch[1].enochianWord,
                                            phraseMatch[1].explanation)>>
             ELSE <<>>
           Lookup(exactPhraseMatch) ==
             IF exactPhraseMatch # <<>>
             THEN <<[match |-> ToLower(t), enochianWord |-> exactPhraseMatch,
                     explanation |-> Explain("Complete phrase match", <<t, exactPhraseMatch>>)]>>
             ELSE findFuzzyPhraseMatch(t)
       IN  Found(Lookup(MapGet(phraseMap, ToLower(t))))

\* ------------------------------------------------------------------------
\* Word matcher
\* ------------------------------------------------------------------------

\* The negation prefixes, in the order both handleNegationPrefixes and
\* hasNegationPrefix try them.
negationPrefixes ==
  <<S("im"), S("in"), S("ir"), S("il"), S("un"), S("non"), S("dis"), S("a"), S("anti")>>

\* The base word must have at least this many characters.
MinBaseLen == 3

\* What one prefix yields in handleNegationPrefixes: <<[word, explanation]>> or <<>>.
NegationBy(word, prefix) ==
  LET Negated(baseWord, via, target) ==
        <<[word |-> S("G-") \o target,
           explanation |-> Explain("Negation prefix",
                                   <<prefix, word, baseWord, via, S("G-") \o target>>)]>>
      ByStem(baseWord, stemmedRoot, stemMatches) ==
        IF Len(stemMatches) > 0 THEN Negated(baseWord, stemmedRoot, stemMatches[1]) ELSE <<>>
      Stemmed(baseWord, stemmedRoot) == ByStem(baseWord, stemmedRoot, MapGet(stemMap, stemmedRoot))
      ByBase(baseWord, rootWordMatch) ==
        IF ~StartsWith(ToLower(word), ToLower(prefix)) \/ Len(baseWord) < MinBaseLen THEN <<>>
        ELSE IF rootWordMatch # <<>> THEN Negated(baseWord, rootWordMatch, rootWordMatch)
        ELSE Stemmed(baseWord, stemWord(baseWord))
      Base(baseWord) == ByBase(baseWord, MapGet(meaningToWordMap, baseWord))
  IN  Base(Drop(word, Len(prefix)))

RECURSIVE NegationFrom(_, _)
NegationFrom(word, k) ==
  IF k > Len(negationPrefixes) THEN <<>>
  ELSE LET Try(negated) == IF negated # <<>> THEN negated ELSE NegationFrom(word, k + 1)
       IN  Try(NegationBy(word, negationPrefixes[k]))

handleNegationPrefixes(word) == NegationFrom(word, 1)

\* A variant of hasNegationPrefix that recognises no prefix, as the
\* substring-containment loop behaved before the check was added.
hasNegationPrefixNever(word, possibleRoot) == FALSE

hasNegationPrefix(word, possibleRoot) ==
  /\ word # possibleRoot
  /\ \E k \in 1..Len(negationPrefixes) :
       /\ StartsWith(word, negationPrefixes[k])
       /\ Drop(word, Len(negationPrefixes[k])) = possibleRoot

\* The substring-containment loop of findFuzzyMatch over meaningToWordMap.
\* best = [num, den, word, explanation], num = 0 while there is none.
RECURSIVE BestMeaning(_, _, _)
BestMeaning(word, i, best) ==
  IF i > Len(meaningToWordMap) THEN best
  ELSE LET meaning == meaningToWordMap[i][1]
           enochianWord == meaningToWordMap[i][2]
           inMeaning == Includes(meaning, word)
           inWord == Includes(word, meaning)
           num == IF inMeaning THEN Len(word) ELSE Len(meaning)
           den == IF inMeaning THEN Len(meaning) ELSE Len(word)
       IN  IF (inMeaning \/ inWord)
              /\ ~(inWord /\ hasNegationPrefix(word, meaning))
              /\ ScoreGreater(num, den, best.num, best.den)
           THEN BestMeaning(word, i + 1,
                  [num |-> num, den |-> den, word |-> enochianWord,
                   explanation |->
                     IF inMeaning
                     THEN Explain("Partial match (word found in meaning)",
                                  <<word, meaning, enochianWord>>)
                     ELSE Explain("Partial match (meaning found in word)",
                                  <<meaning, word, enochianWord>>)])
           ELSE BestMeaning(word, i + 1, best)

\* bestMatchScore > 0.5
FuzzyThresholdNum == 1
FuzzyThresholdDen == 2

NoBest == [num |-> 0, den |-> 1, word |-> <<>>, explanation |-> Explain("", <<>>)]

\* A variant that accepts a best score of exactly 0.5 as well.
findFuzzyMatchAtLeastHalf(word) ==
  LET ByMeaning(best) ==
        IF best.word # <<>>
           /\ ~ScoreGreater(FuzzyThresholdNum, FuzzyThresholdDen, best.num, best.den)
        THEN <<[word |-> best.word, explanation |-> best.explanation]>>
        ELSE <<>>
      ByStem(stemmed, stemMatches) ==
        IF Len(stemMatches) > 0
        THEN <<[word |-> stemMatches[1],
                explanation |-> Explain("Partial match via stemming",
                                        <<word, stemmed, stemMatches[1]>>)]>>
        ELSE ByMeaning(BestMeaning(word, 1, NoBest))
      Stemmed(stemmed) == ByStem(stemmed, MapGet(stemMap, stemmed))
      ByNegation(negationMatch) ==
        IF negationMatch # <<>> THEN negationMatch ELSE Stemmed(stemWord(word))
  IN  ByNegation(handleNegationPrefixes(word))

\* <<[word, explanation]>> or <<>> (null).
findFuzzyMatch(word) ==
  LET ByMeaning(best) ==
        IF best.word # <<>>
           /\ ScoreGreater(best.num, best.den, FuzzyThresholdNum, FuzzyThresholdDen)
        THEN <<[word |-> best.word, explanation |-> best.explanation]>>
        ELSE <<>>
      ByStem(stemmed, stemMatches) ==
        IF Len(stemMatches) > 0
        THEN <<[word |-> stemMatches[1],
                explanation |-> Explain("Partial match via stemming",
                                        <<word, stemmed, stemMatches[1]>>)]>>
        ELSE ByMeaning(BestMeaning(word, 1, NoBest))
      Stemmed(stemmed) == ByStem(stemmed, MapGet(stemMap, stemmed))
      ByNegation(negationMatch) ==
        IF negationMatch # <<>> THEN negationMatch ELSE Stemmed(stemWord(word))
  IN  ByNegation(handleNegationPrefixes(word))

\* <<[result, method, explanation]>> or <<>> (null).
handleSingleLetterWord(word) ==
  LET Letter(root, match) ==
        IF root # <<>>
        THEN <<[result |-> root[1].enochian_name, method |-> "direct",
                explanation |-> Explain("Using Enochian letter name",
                                        <<word, root[1].enochian_name>>)]>>
        ELSE IF match # <<>>
        THEN <<[result |-> match, method |-> "direct",
                explanation |-> Explain("Direct match found for single letter",
                                        <<word, match>>)]>>
        ELSE <<>>
  IN  IF Len(word) = 1 /\ IsLetter(word[1])
      THEN Letter(findRootForLetter(word), MapGet(meaningToWordMap, word))
      ELSE <<>>

\* word.charAt(0).toUpperCase() + word.slice(1).toLowerCase()
Capitalize(word) ==
  IF word = <<>> THEN <<>> ELSE <<UpperChar(word[1])>> \o ToLower(Tail(word))

\* letters.map(l => this.findRootForLetter(l)).filter(Boolean)
RECURSIVE RootsOf(_, _)
RootsOf(chars, lettersOnly) ==
  IF chars = <<>> THEN <<>>
  ELSE IF lettersOnly /\ ~IsLetter(chars[1]) THEN RootsOf(Tail(chars), lettersOnly)
  ELSE findRootForLetter(<<chars[1]>>) \o RootsOf(Tail(chars), lettersOnly)

\* The filter of constructWordFromRoots: the word equals the meaning, or is a
\* whole word inside it (not the first one).
SecondChance(meaning, word) ==
  \/ ToLower(meaning) = ToLower(word)
  \/ Includes(ToLower(meaning), S(" ") \o ToLower(word) \o S(" "))
  \/ EndsWith(ToLower(meaning), S(" ") \o ToLower(word))

\* singleWordMatches[0] after the (stable) sort: the exact meaning if there is
\* one, else the first of the shortest meanings.  An index into meaningToWordMap, or 0.
FirstSingleWordMatch(word) ==
  LET Before(i, j) == \/ Len(meaningToWordMap[i][1]) < Len(meaningToWordMap[j][1])
                      \/ Len(meaningToWordMap[i][1]) = Len(meaningToWordMap[j][1]) /\ i <= j
      Pick(hits, exact) ==
        IF hits = {} THEN 0
        ELSE IF exact # {} THEN CHOOSE i \in exact : TRUE
        ELSE CHOOSE i \in hits : \A j \in hits : Before(i, j)
      Among(hits) == Pick(hits, {i \in hits : ToLower(meaningToWordMap[i][1]) = ToLower(word)})
  IN  Among({i \in 1..Len(meaningToWordMap) : SecondChance(meaningToWordMap[i][1], word)})

\* Words of at most this many characters are preserved without needing a root.
ShortWordLen == 3

\* <<[word, explanation, originalRoots]>> or <<>> (null); originalRoots is
\* <<roots>> when the property is set and <<>> when it is not.
constructWordFromRoots(word) ==
  LET WithRoots(finalWord, significantRoots) ==
        IF Len(significantRoots) > 0
        THEN <<[word |-> finalWord,
                explanation |-> Explain("Preserved word with roots",
                                        [i \in 1..Len(significantRoots) |->
                                           significantRoots[i].english_letter]),
                originalRoots |-> <<significantRoots>>]>>
        ELSE <<>>
      Preserved(finalWord) ==
        IF Len(word) <= ShortWordLen
        THEN <<[word |-> finalWord,
                explanation |-> Explain("Preserved word directly", <<word, finalWord>>),
                originalRoots |-> <<RootsOf(ToLower(word), FALSE)>>]>>
        ELSE WithRoots(finalWord, RootsOf(ToLower(word), TRUE))
      Found(m) ==
        IF m # 0
        THEN <<[word |-> meaningToWordMap[m][2],
                explanation |-> Explain("Found in lexicon",
                                        <<word, meaningToWordMap[m][1], meaningToWordMap[m][2]>>),
                originalRoots |-> <<>>]>>
        ELSE Preserved(Capitalize(word))
  IN  Found(FirstSingleWordMatch(word))

\* /^[.,;:!?'"()-]+$/.test(w)
AllPunct(w) == w # <<>> /\ \A i \in 1..Len(w) : IsPunct(w[i])

\* The length of the match of /^([.,;:!?'"()-]+)/ (0 when there is none).
RECURSIVE LeadingPunctLen(_)
LeadingPunctLen(w) ==
  IF w # <<>> /\ IsPunct(w[1]) THEN 1 + LeadingPunctLen(Tail(w)) ELSE 0

\* The length of the match of /([.,;:!?'"()-]+)$/ (0 when there is none).
RECURSIVE TrailingPunctLen(_)
TrailingPunctLen(w) ==
  IF w # <<>> /\ IsPunct(w[Len(w)]) THEN 1 + TrailingPunctLen(SubSeq(w, 1, Len(w) - 1)) ELSE 0

\* originalWord.slice(leadingPunct.length, originalWord.length - trailingPunct.length)
\*   .toLowerCase()
CoreWord(originalWord) ==
  LET from == LeadingPunctLen(originalWord)
      to == Len(originalWord) - TrailingPunctLen(originalWord)
  IN  IF from >= to THEN <<>> ELSE ToLower(SubSeq(originalWord, from + 1, to))

\* The per-call accumulators after a token resolved to `res` by `method`:
\* wordAnalysis[res], constructionDetails[originalWord] and stats[method]++.
Resolved(ctx, originalWord, res, method, explanation, originalRoots) ==
  [out |-> Take(originalWord, LeadingPunctLen(originalWord)) \o res
           \o Drop(originalWord, Len(originalWord) - TrailingPunctLen(originalWord)),
   stats |-> [ctx.stats EXCEPT ![method] = @ + 1],
   wordAnalysis |-> MapSet(ctx.wordAnalysis, res, analyzeRoots(res)),
   constructionDetails |->
     MapSet(ctx.constructionDetails, originalWord,
            Detail(CoreWord(originalWord), res, method, explanation, originalRoots))]

\* The missing path: no wordAnalysis entry, and the bracketed word as result.
Missing(ctx, originalWord) ==
  LET res == S("[") \o CoreWord(originalWord) \o S("]") IN
  [out |-> Take(originalWord, LeadingPunctLen(originalWord)) \o res
           \o Drop(originalWord, Len(originalWord) - TrailingPunctLen(originalWord)),
   stats |-> [ctx.stats EXCEPT !.missing = @ + 1],
   wordAnalysis |-> ctx.wordAnalysis,
   constructionDetails |->
     MapSet(ctx.constructionDetails, originalWord,
            Detail(CoreWord(originalWord), res, "missing", Explain("No match found", <<>>), <<>>))]

\* A variant of translateWord that tries the fuzzy step first and the letter,
\* lexicon and plural steps only when it finds nothing.
translateWordFuzzyFirst(originalWord, ctx, options) ==
  LET Hit(res, method, explanation, originalRoots) ==
        <<[res |-> res, method |-> method, explanation |-> explanation,
           originalRoots |-> originalRoots]>>
      ByConstruction(constructed) ==
        IF constructed # <<>>
        THEN Hit(constructed[1].word, "constructed", constructed[1].explanation,
                 constructed[1].originalRoots)
        ELSE <<>>
      ByFuzzy(word, fuzzyMatch) ==
        IF fuzzyMatch # <<>>
        THEN Hit(fuzzyMatch[1].word, "partial", fuzzyMatch[1].explanation, <<>>)
        ELSE ByConstruction(IF options.rootConstruction THEN constructWordFromRoots(word)
                            ELSE <<>>)
      ByPlural(word, singular, pluralMatch) ==
        IF options.pluralHandling /\ EndsWith(word, S("s")) /\ ~EndsWith(word, S("ss"))
           /\ pluralMatch # <<>>
        THEN Hit(pluralMatch, "direct",
                 Explain("Matched by removing plural 's'", <<word, singular, pluralMatch>>),
                 <<>>)
        ELSE ByFuzzy(word, IF options.fuzzyMatching THEN findFuzzyMatch(word) ELSE <<>>)
      Singular(word, singular) == ByPlural(word, singular, MapGet(meaningToWordMap, singular))
      ByLexicon(word, match) ==
        IF match # <<>>
        THEN Hit(match, "direct", Explain("Direct match found in lexicon", <<word, match>>),
                 <<>>)
        ELSE Singular(word, Take(word, Len(word) - 1))
      ByLetter(word, singleLetterMatch) ==
        IF singleLetterMatch # <<>>
        THEN Hit(singleLetterMatch[1].result, "direct", singleLetterMatch[1].explanation, <<>>)
        ELSE ByLexicon(word, MapGet(meaningToWordMap, word))
      FuzzyFirst(word, fuzzyMatch) ==
        IF fuzzyMatch # <<>>
        THEN Hit(fuzzyMatch[1].word, "partial", fuzzyMatch[1].explanation, <<>>)
        ELSE ByLetter(word, handleSingleLetterWord(word))
      Core(word) == FuzzyFirst(word, IF options.fuzzyMatching THEN findFuzzyMatch(word) ELSE <<>>)
      Finish(hit) ==
        IF hit # <<>>
        THEN Resolved(ctx, originalWord, hit[1].res, hit[1].method, hit[1].explanation,
                      hit[1].originalRoots)
        ELSE Missing(ctx, originalWord)
  IN  IF AllPunct(originalWord)
      THEN [out |-> originalWord, stats |-> ctx.stats, wordAnalysis |-> ctx.wordAnalysis,
            constructionDetails |-> ctx.constructionDetails]
      ELSE Finish(Core(CoreWord(originalWord)))

\* translateWord: the string returned and the accumulators it leaves.
translateWord(originalWord, ctx, options) ==
  LET Hit(res, method, explanation, originalRoots) ==
        <<[res |-> res, method |-> method, explanation |-> explanation,
           originalRoots |-> originalRoots]>>
      ByConstruction(constructed) ==
        IF constructed # <<>>
        THEN Hit(constructed[1].word, "constructed", constructed[1].explanation,
                 constructed[1].originalRoots)
        ELSE <<>>
      ByFuzzy(word, fuzzyMatch) ==
        IF fuzzyMatch # <<>>
        THEN Hit(fuzzyMatch[1].word, "partial", fuzzyMatch[1].explanation, <<>>)
        ELSE ByConstruction(IF options.rootConstruction THEN constructWordFromRoots(word)
                            ELSE <<>>)
      ByPlural(word, singular, pluralMatch) ==
        IF options.pluralHandling /\ EndsWith(word, S("s")) /\ ~EndsWith(word, S("ss"))
           /\ pluralMatch # <<>>
        THEN Hit(pluralMatch, "direct",
                 Explain("Matched by removing plural 's'", <<word, singular, pluralMatch>>),
                 <<>>)
        ELSE ByFuzzy(word, IF options.fuzzyMatching THEN findFuzzyMatch(word) ELSE <<>>)
      Singular(word, singular) == ByPlural(word, singular, MapGet(meaningToWordMap, singular))
      ByLexicon(word, match) ==
        IF match # <<>>
        THEN Hit(match, "direct", Explain("Direct match found in lexicon", <<word, match>>),
                 <<>>)
        ELSE Singular(word, Take(word, Len(word) - 1))
      ByLetter(word, singleLetterMatch) ==
        IF singleLetterMatch # <<>>
        THEN Hit(singleLetterMatch[1].result, "direct", singleLetterMatch[1].explanation, <<>>)
        ELSE ByLexicon(word, MapGet(meaningToWordMap, word))
      Core(word) == ByLetter(word, handleSingleLetterWord(word))
      Finish(hit) ==
        IF hit # <<>>
        THEN Resolved(ctx, originalWord, hit[1].res, hit[1].method, hit[1].explanation,
                      hit[1].originalRoots)
        ELSE Missing(ctx, originalWord)
  IN  IF AllPunct(originalWord)
      THEN [out |-> originalWord, stats |-> ctx.stats, wordAnalysis |-> ctx.wordAnalysis,
            constructionDetails |-> ctx.constructionDetails]
      ELSE Finish(Core(CoreWord(originalWord)))

\* ------------------------------------------------------------------------
\* Multi-word phrase scan
\* ------------------------------------------------------------------------

\* An element of the processedWords array: an input token, or the marker
\* `__PHRASE_MATCH_${i}_${j}_${word}__` that replaced the tokens of a phrase.
Marker(i, j, word) == [marker |-> TRUE, s |-> word, i |-> i, j |-> j]

\* word.startsWith('__PHRASE_MATCH_')
MarkerPrefix == S("__PHRASE_MATCH_")

DigitChars == S("0123456789")

\* The length of the leading run of digits of s.
RECURSIVE DigitRun(_)
DigitRun(s) ==
  IF s # <<>> /\ (\E d \in 1..10 : DigitChars[d] = s[1]) THEN 1 + DigitRun(Tail(s)) ELSE 0

\* The number a non-empty string of digits denotes.
RECURSIVE NumberOf(_)
NumberOf(digits) ==
  IF digits = <<>> THEN 0
  ELSE 10 * NumberOf(SubSeq(digits, 1, Len(digits) - 1))
         + (CHOOSE d \in 1..10 : DigitChars[d] = digits[Len(digits)]) - 1

\* A token of the form `__PHRASE_MATCH_${i}_${j}_${word}__` is the very string
\* the scan writes for Marker(i, j, word); any other token that starts with
\* the prefix is a marker whose word the regular expression does not find.
MarkerOfToken(token) ==
  LET Unreadable == [marker |-> TRUE, s |-> token, i |-> -1, j |-> -1]
      Word(i, j, rest) ==
        IF Len(rest) >= 2 /\ EndsWith(rest, S("__"))
        THEN Marker(i, j, SubSeq(rest, 1, Len(rest) - 2))
        ELSE Unreadable
      Second(i, rest, n) ==
        IF n >= 1 /\ Len(rest) > n /\ rest[n + 1] = "_"
        THEN Word(i, NumberOf(SubSeq(rest, 1, n)), SubSeq(rest, n + 2, Len(rest)))
        ELSE Unreadable
      First(rest, n) ==
        IF n >= 1 /\ Len(rest) > n /\ rest[n + 1] = "_"
        THEN Second(NumberOf(SubSeq(rest, 1, n)), SubSeq(rest, n + 2, Len(rest)),
                    DigitRun(SubSeq(rest, n + 2, Len(rest))))
        ELSE Unreadable
      Rest(rest) == First(rest, DigitRun(rest))
  IN  Rest(SubSeq(token, Len(MarkerPrefix) + 1, Len(token)))

\* The element an input token is in processedWords: the code tells markers
\* from tokens by the prefix alone, so a token that starts with it is a marker.
Plain(token) ==
  IF StartsWith(token, MarkerPrefix) THEN MarkerOfToken(token)
  ELSE [marker |-> FALSE, s |-> token, i |-> 0, j |-> 0]

\* The longest window tried at a start index.
MaxWindow == 4

Min(a, b) == IF a < b THEN a ELSE b

\* words.slice(i, j).join(' ').trim(), i and j 0-based as in the code.
WindowPhrase(words, i, j) ==
  Trim(Join([k \in 1..(j - i) |-> words[i + k].s], S(" ")))

\* The scan state: the words array and the accumulators processText passed in.
\* ScanFrom is the outer loop at index i; TryWindow is the inner loop at (i, j).
RECURSIVE ScanFrom(_, _)
RECURSIVE TryWindow(_, _, _)
\* A variant of the outer loop that tries the window of 2 tokens only.
ScanFromPairsOnly(st, i) ==
  IF i >= Len(st.words) THEN st
  ELSE IF st.words[i + 1].marker THEN ScanFrom(st, i + 1)
  ELSE TryWindow(st, i, Min(Len(st.words), i + 2))

ScanFrom(st, i) ==
  IF i >= Len(st.words) THEN st
  ELSE IF st.words[i + 1].marker THEN ScanFrom(st, i + 1)
  ELSE TryWindow(st, i, Min(Len(st.words), i + MaxWindow))

TryWindow(st, i, j) ==
  IF j <= i + 1 THEN ScanFrom(st, i + 1)
  ELSE IF \E k \in (i + 1)..j : st.words[k].marker THEN TryWindow(st, i, j - 1)
  ELSE LET Matched(phrase, match) ==
             IF phrase = <<>> \/ match = <<>> THEN TryWindow(st, i, j - 1)
             ELSE ScanFrom(
                    [words |-> [k \in 1..Len(st.words) |->
                                  IF k \in (i + 1)..j
                                  THEN Marker(i, j, match[1].enochianWord)
                                  ELSE st.words[k]],
                     phraseMatches |-> MapSet(st.phraseMatches, phrase, match[1].enochianWord),
                     constructionDetails |->
                       MapSet(st.constructionDetails, phrase,
                              Detail(phrase, match[1].enochianWord, "direct",
                                     match[1].explanation, <<>>)),
                     wordAnalysis |-> MapSet(st.wordAnalysis, match[1].enochianWord,
                                             analyzeRoots(match[1].enochianWord)),
                     stats |-> [st.stats EXCEPT !.direct = @ + 1]],
                    j)
           Window(phrase) == Matched(phrase, findFuzzyPhraseMatch(phrase))
       IN  Window(WindowPhrase(st.words, i, j))

findMultiWordPhrases(st) == ScanFrom(st, 0)

\* ------------------------------------------------------------------------
\* Phonetic and symbol text
\* ------------------------------------------------------------------------

\* \b at the position before txt[q] (q = Len(txt) + 1: the end of the text).
WordAt(txt, k) == k >= 1 /\ k <= Len(txt) /\ IsWordChar(txt[k])
Boundary(txt, q) == WordAt(txt, q - 1) # WordAt(txt, q)

\* new RegExp(`\\b${pat}\\b`, 'g') throws a SyntaxError when the parentheses
\* of pat do not pair up.
RECURSIVE ParenDepth(_, _)
ParenDepth(pat, depth) ==
  IF depth < 0 \/ pat = <<>> THEN depth
  ELSE ParenDepth(Tail(pat), IF pat[1] = "(" THEN depth + 1
                             ELSE IF pat[1] = ")" THEN depth - 1 ELSE depth)

RegExpThrows(pat) == ParenDepth(pat, 0) # 0

\* txt.replace(/\bpat\b/g, repl) for a pattern whose characters all stand for
\* themselves (letters, "-", "'"): every non-overlapping occurrence of pat,
\* left to right, that begins and ends at a word boundary.
RECURSIVE ReplaceFrom(_, _, _, _)
ReplaceFrom(txt, q, pat, repl) ==
  IF q > Len(txt) THEN <<>>
  ELSE IF /\ q + Len(pat) - 1 <= Len(txt)
          /\ SubSeq(txt, q, q + Len(pat) - 1) = pat
          /\ Boundary(txt, q)
          /\ Boundary(txt, q + Len(pat))
       THEN repl \o ReplaceFrom(txt, q + Len(pat), pat, repl)
       ELSE <<txt[q]>> \o ReplaceFrom(txt, q + 1, pat, repl)

ReplaceWord(txt, pat, repl) == ReplaceFrom(txt, 1, pat, repl)

\* The two maps generateAlternateFormats builds first: enochianToOriginal from
\* the construction details whose result is not bracketed, then from the phrase
\* matches; enochianToRoots from the details that carry originalRoots.
RECURSIVE OriginalsOfDetails(_, _)
OriginalsOfDetails(map, cd) ==
  IF cd = <<>> THEN map
  ELSE LET details == cd[1][2] IN
       OriginalsOfDetails(IF StartsWith(details.result, S("[")) THEN map
                          ELSE MapSet(map, details.result, details.original),
                          Tail(cd))

RECURSIVE OriginalsOfPhrases(_, _)
OriginalsOfPhrases(map, pm) ==
  IF pm = <<>> THEN map
  ELSE OriginalsOfPhrases(MapSet(map, pm[1][2], pm[1][1]), Tail(pm))

RECURSIVE RootsOfDetails(_, _)
RootsOfDetails(map, cd) ==
  IF cd = <<>> THEN map
  ELSE LET details == cd[1][2] IN
       RootsOfDetails(IF StartsWith(details.result, S("[")) \/ details.originalRoots = <<>>
                      THEN map
                      ELSE MapSet(map, details.result, details.originalRoots[1]),
                      Tail(cd))

\* keys.sort((a, b) => b.length - a.length): longer first, stable.
RECURSIVE InsertByLength(_, _)
InsertByLength(sorted, k) ==
  IF sorted = <<>> THEN <<k>>
  ELSE IF Len(k) > Len(sorted[1]) THEN <<k>> \o sorted
  ELSE <<sorted[1]>> \o InsertByLength(Tail(sorted), k)

RECURSIVE SortByLength(_, _)
SortByLength(sorted, keys) ==
  IF keys = <<>> THEN sorted
  ELSE SortByLength(InsertByLength(sorted, keys[1]), Tail(keys))

\* this.rootData.find(root => root.english_letter.toLocaleLowerCase()
\*                            === originalWord?.toLowerCase())
directRootOf(originalWord) ==
  LET hits == {i \in 1..Len(rootData) : ToLower(rootData[i].english_letter) = ToLower(originalWord)}
  IN  IF hits = {} THEN <<>> ELSE <<rootData[CHOOSE i \in hits : \A j \in hits : i <= j]>>

RootNames(roots) == Join([i \in 1..Len(roots) |-> roots[i].enochian_name], S("-"))
RootSymbols(roots) == Join([i \in 1..Len(roots) |-> roots[i].symbol], <<>>)

\* The forEach over the sorted words: acc = [phoneticText, symbolText, threw].
RECURSIVE ReplaceWords(_, _, _, _)
ReplaceWords(acc, enochianWords, enochianToOriginal, enochianToRoots) ==
  IF enochianWords = <<>> \/ acc.threw THEN acc
  ELSE LET enochianWord == enochianWords[1]
           Replaced(isSpecialCase, phoneticVersion, symbolVersion) ==
             IF StartsWith(enochianWord, S("[")) THEN acc
             ELSE IF RegExpThrows(enochianWord) \/ symbolVersion = Thrown
             THEN [acc EXCEPT !.threw = TRUE]
             ELSE [phoneticText |-> IF isSpecialCase THEN acc.phoneticText
                                    ELSE ReplaceWord(acc.phoneticText, enochianWord, phoneticVersion),
                   symbolText |-> ReplaceWord(acc.symbolText, enochianWord, symbolVersion),
                   threw |-> FALSE]
           Versions(directRoot, isSpecialCase, originalRoots) ==
             Replaced(isSpecialCase,
                      IF Len(originalRoots) > 0 THEN RootNames(originalRoots)
                      ELSE convertToPhonetic(enochianWord),
                      IF isSpecialCase THEN directRoot[1].symbol
                      ELSE IF Len(originalRoots) > 0 THEN RootSymbols(originalRoots)
                      ELSE convertToSymbols(enochianWord))
           Special(originalWord, directRoot) ==
             Versions(directRoot, directRoot # <<>> /\ originalWord = <<>>,
                      MapGet(enochianToRoots, enochianWord))
           Original(originalWord) == Special(originalWord, directRootOf(originalWord))
       IN  ReplaceWords(Original(MapGet(enochianToOriginal, enochianWord)),
                        Tail(enochianWords), enochianToOriginal, enochianToRoots)

generateAlternateFormats(translationText, constructionDetails, phraseMatches) ==
  LET Replace(enochianToOriginal) ==
        ReplaceWords([phoneticText |-> translationText, symbolText |-> translationText,
                      threw |-> FALSE],
                     SortByLength(<<>>, MapKeys(enochianToOriginal)),
                     enochianToOriginal,
                     RootsOfDetails(<<>>, constructionDetails))
  IN  Replace(OriginalsOfPhrases(OriginalsOfDetails(<<>>, constructionDetails), phraseMatches))

\* ------------------------------------------------------------------------
\* Orchestrator
\* ------------------------------------------------------------------------

\* text.trim().replace(/\s+/g, ' ')
cleanText(t) == CollapseSpaces(Trim(t))

\* cleanedText.split(/\s+/).filter(word => word.length > 0)
splitWords(t) == NonEmpty(SplitSpaces(cleanText(t)))

\* /__PHRASE_MATCH_\d+_\d+_([A-Z]+)__/ matches the marker of a word: the word
\* must be upper-case letters only.
MarkerWordMatches(word) == word # <<>> /\ \A k \in 1..Len(word) : word[k] \in UpperSet

\* The string a marker maps to in processedWords.map(...): '' for a marker seen
\* before; else the word embedded in the marker when the regular expression
\* finds it; else the word of the first entry of phraseMatches.
MarkerOutput(w, processedMarkers, phraseMatches) ==
  IF w \in processedMarkers THEN <<>>
  ELSE IF MarkerWordMatches(w.s) THEN w.s
  ELSE IF phraseMatches # <<>> THEN phraseMatches[1][2]
  ELSE <<>>

\* processedWords.map(...): acc = [outs, processedMarkers, stats, wordAnalysis,
\* constructionDetails].
RECURSIVE MapWords(_, _, _, _)
MapWords(acc, words, phraseMatches, options) ==
  IF words = <<>> THEN acc
  ELSE LET Word(r) ==
             [outs |-> Append(acc.outs, r.out),
              processedMarkers |-> acc.processedMarkers,
              stats |-> r.stats,
              wordAnalysis |-> r.wordAnalysis,
              constructionDetails |-> r.constructionDetails]
           Step(w) ==
             IF w.marker
             THEN [acc EXCEPT !.outs = Append(@, MarkerOutput(w, acc.processedMarkers, phraseMatches)),
                              !.processedMarkers = @ \cup {w}]
             ELSE Word(translateWord(w.s, acc, options))
       IN  MapWords(Step(words[1]), Tail(words), phraseMatches, options)

\* stats.total of processText: words.length.
totalOf(words) == Len(words)

processText(t, options) ==
  LET Finish(st1, done, translationText, alt) ==
        IF alt.threw THEN ThrownResult
        ELSE Result(translationText, alt.phoneticText, alt.symbolText, done.stats,
                    done.wordAnalysis, done.constructionDetails, st1.phraseMatches)
      Render(st1, done, translationText) ==
        Finish(st1, done, translationText,
               generateAlternateFormats(translationText, done.constructionDetails,
                                        st1.phraseMatches))
      Mapped(st1, done) == Render(st1, done, Join(NonEmpty(done.outs), S(" ")))
      Scanned(st1) ==
        Mapped(st1, MapWords([outs |-> <<>>, processedMarkers |-> {}, stats |-> st1.stats,
                              wordAnalysis |-> st1.wordAnalysis,
                              constructionDetails |-> st1.constructionDetails],
                             st1.words, st1.phraseMatches, options))
      Start(st0) == Scanned(IF options.checkPhrases THEN findMultiWordPhrases(st0) ELSE st0)
      Words(words) ==
        Start([words |-> [k \in 1..Len(words) |-> Plain(words[k])],
               phraseMatches |-> <<>>, constructionDetails |-> <<>>, wordAnalysis |-> <<>>,
               stats |-> [ZeroStats EXCEPT !.total = totalOf(words)]])
  IN  Words(splitWords(t))

\* A variant of translate without the phrase stage: every input goes to the
\* word-by-word cascade.
translateWordByWord(t, options) ==
  IF cleanText(t) = <<>> THEN createEmptyResult
  ELSE processText(cleanText(t), [options EXCEPT !.checkPhrases = FALSE])

\* translate(text, options), options with the defaults filled in.
translate(t, options) ==
  LET Words(cleanedText, phraseResult) ==
        IF phraseResult # <<>> THEN phraseResult[1] ELSE processText(cleanedText, options)
      Cleaned(cleanedText) ==
        IF cleanedText = <<>> THEN createEmptyResult
        ELSE Words(cleanedText,
                   IF options.checkPhrases THEN checkForPhraseMatch(cleanedText) ELSE <<>>)
  IN  Cleaned(cleanText(t))

\* ------------------------------------------------------------------------
\* The tables and inputs explored
\* ------------------------------------------------------------------------

Entry(word, meaning) == [word |-> S(word), meaning |-> S(meaning)]
\* numeric_value and meaning of a root are read by no code path that decides a
\* result (meaning only feeds an explanation text) and are left out.
Root(letter, name, symbol) ==
  [english_letter |-> S(letter), enochian_name |-> S(name), symbol |-> S(symbol)]

\* Upper-case target words and a root table with the negation letter G, as in
\* the dictionary the tests load from public/; two meanings are listed twice
\* and one meaning is a letter of the root table.
LexiconA ==
  <<Entry("ZIR", "I am; light"), Entry("ZIRDO", "I am"), Entry("OLPIRT", "light"), Entry("AGIOD", "mortal"),
    Entry("GNAY", "do"), Entry("OL", "I")>>
RootsA ==
  <<Root("A", "Un", "<A>"), Root("D", "Gal", "<D>"), Root("G", "Ged", "<G>"),
    Root("I", "Gon", "<I>"), Root("L", "Ur", "<L>"), Root("O", "Med", "<O>"),
    Root("P", "Mals", "<P>"), Root("R", "Don", "<R>"), Root("T", "Gisa", "<T>"),
    Root("Z", "Ceph", "<Z>")>>
VocabA == {S("I"), S("am"), S("am,"), S("light"), S("immortal")}
WordsA == {S("mortal"), S("Mortal!"), S("do"), S("undo"), S("ado"), S("when"),
           S("lights"), S("unlighted"), S("antimortal"), S("i"), S("I AM"), S("I am I am")}

\* The mock tables of tests/trnaslate.test.ts: lower-case target words, several
\* meanings per entry, a phrase whose words have entries of their own, a
\* meaning that is a letter without a root, and a root table without the
\* letter G.
LexiconB ==
  <<Entry("Un", "(A)"), Entry("in", "with"), Entry("cafafam", "truth, true"),
    Entry("tol", "all, all creatures"), Entry("ollog", "man, humanity"),
    Entry("zir", "with man"), Entry("oh", "o")>>
RootsB ==
  <<Root("A", "Un", "<A>"), Root("B", "Pe", "<B>"), Root("C", "Veh", "<C>"),
    Root("I", "Gon", "<I>"), Root("N", "Drun", "<#>")>>
VocabB == {S("with"), S("true."), S("man"), S("ollog"), S(","), S("a")}
WordsB == {S("untrue"), S("all"), S("creatures"), S("hello"), S("a"), S("in"),
           S("(with)"), S("truths"), S("nonhumanity"), S("unknown"), S("o"), S("(A)"), S("a un"),
           S("can un"),
           S("with man all creatures")}

\* An empty lexicon and an empty root table.
VocabC == {S("a"), S("hello,")}
WordsC ==
  {S("Hi"), S("unhappy"), S("a(b"), S("42"), S("__PHRASE_MATCH_0_1_ZIR__")}

\* Phrases of 2, 3 and 5 words that begin alike; a word ("untrue") that is a
\* negation of one meaning, a word of a second and a substring of it; a word
\* ("art") contained in two meanings at the same ratio; and a root table in
\* which the letter G has another name than Ged.
LexiconD ==
  <<Entry("PAIR", "x y"), Entry("TRIO", "x y z"), Entry("LONG", "x y z u v"),
    Entry("TRUE", "true"), Entry("LIE", "untrue word"),
    Entry("CARR", "cart"), Entry("PARR", "part")>>
RootsD == <<Root("G", "Gx", "<g>")>>
VocabD == {}
WordsD ==
  {S("ww x y z"), S("ww ww x y z u v"), S("x y ww x y"), S("untrue"), S("art")}

Worlds ==
  {[lexicon |-> LexiconA, roots |-> RootsA, vocab |-> VocabA, words |-> WordsA],
   [lexicon |-> LexiconB, roots |-> RootsB, vocab |-> VocabB, words |-> WordsB],
   [lexicon |-> <<>>, roots |-> <<>>, vocab |-> VocabC, words |-> WordsC],
   [lexicon |-> LexiconD, roots |-> RootsD, vocab |-> VocabD, words |-> WordsD]}

\* The world the engine at hand was built from.
World == CHOOSE w \in Worlds : w.lexicon = lexiconData /\ w.roots = rootData

\* The longest input built from the vocabulary, in tokens.
MaxTokens == 3

TokenSeqs(n) == UNION {[1..k -> World.vocab] : k \in 0..n}

\* Inputs with no token at all.
BlankInputs == {S(""), S(" "), S("\t\n"), S(" \r\n ")}

\* Single-spaced inputs: the token sequences, and some more inputs.
Inputs == {Join(ts, S(" ")) : ts \in TokenSeqs(MaxTokens)} \cup World.words \cup BlankInputs

\* Every setting of the flags translate reads; contextAware is read by no code.
Options ==
  [fuzzyMatching : BOOLEAN, pluralHandling : BOOLEAN, rootConstruction : BOOLEAN,
   checkPhrases : BOOLEAN, contextAware : {TRUE}]

defaultOptions ==
  [fuzzyMatching |-> TRUE, pluralHandling |-> TRUE, contextAware |-> TRUE,
   rootConstruction |-> TRUE, checkPhrases |-> TRUE]

\* ------------------------------------------------------------------------
\* The state machine
\* ------------------------------------------------------------------------

\* new Translator(lexiconData, rootData)
Init ==
  /\ \E w \in Worlds :
       LET Built(maps) ==
             /\ lexiconData = w.lexicon
             /\ rootData = w.roots
             /\ enochianLetterMap = maps.letterMap
             /\ meaningToWordMap = maps.m2w
             /\ wordToMeaningMap = maps.w2m
             /\ stemMap = maps.stm
             /\ phraseMap = maps.phr
       IN  Built(initializeMaps(w.lexicon, w.roots))
  /\ pc = "idle"
  /\ text = <<>>
  /\ opts = defaultOptions
  /\ result = createEmptyResult
  /\ first = <<>>

\* A caller invokes translate(t, o).
Call ==
  /\ pc = "idle"
  /\ \E t \in Inputs, o \in Options : text' = t /\ opts' = o
  /\ pc' = "called"
  /\ UNCHANGED <<engine, result, first>>

\* A variant of the call that remembers its answer in the phrase map.
TranslateCaching ==
  /\ pc = "called"
  /\ result' = translate(text, opts)
  /\ phraseMap' = IF cleanText(text) = <<>> \/ result'.threw THEN phraseMap
                  ELSE MapSet(phraseMap, ToLower(cleanText(text)), result'.translationText)
  /\ pc' = "done"
  /\ UNCHANGED <<lexiconData, rootData, enochianLetterMap, meaningToWordMap,
                 wordToMeaningMap, stemMap, text, opts, first>>

\* A variant of the call that ignores the caller's options.
TranslateWithDefaults ==
  /\ pc = "called"
  /\ result' = translate(text, defaultOptions)
  /\ pc' = "done"
  /\ UNCHANGED <<engine, text, opts, first>>

\* The call runs to completion: it returns a result or throws.
Translate ==
  /\ pc = "called"
  /\ result' = translate(text, opts)
  /\ pc' = "done"
  /\ UNCHANGED <<engine, text, opts, first>>

\* The caller drops the result.
Return ==
  /\ pc = "done"
  /\ pc' = "idle"
  /\ text' = <<>>
  /\ opts' = defaultOptions
  /\ result' = createEmptyResult
  /\ UNCHANGED <<engine, first>>

Next == Call \/ Translate \/ Return

Spec == Init /\ [][Next]_vars

\* ------------------------------------------------------------------------
\* Properties of a finished call
\* ------------------------------------------------------------------------

\* The whitespace characters, the tokens of a text (its maximal runs of other
\* characters) and their number, read off the text itself.
WsChars == {" ", "\t", "\n", "\r"}

RECURSIVE TokensFrom(_, _, _)
TokensFrom(t, k, cur) ==
  IF k > Len(t) THEN (IF cur = <<>> THEN <<>> ELSE <<cur>>)
  ELSE IF t[k] \in WsChars
       THEN (IF cur = <<>> THEN <<>> ELSE <<cur>>) \o TokensFrom(t, k + 1, <<>>)
       ELSE TokensFrom(t, k + 1, Append(cur, t[k]))

TokensOf(t) == TokensFrom(t, 1, <<>>)

TokenCount(t) ==
  Cardinality({k \in 1..Len(t) : t[k] \notin WsChars /\ (k = 1 \/ t[k - 1] \in WsChars)})

Returned == pc = "done" /\ ~result.threw

CategorySum ==
  result.stats.direct + result.stats.partial + result.stats.constructed
    + result.stats.missing

\* C1: for every non-empty input and every option setting, the result has
\* stats.direct + stats.partial + stats.constructed + stats.missing equal to
\* stats.total.
C1_TotalConservation ==
  (Returned /\ TokenCount(text) > 0) => CategorySum = result.stats.total

\* C2: for every input, stats.total is the number of whitespace-delimited
\* tokens of the input, also when the whole input is resolved as a phrase and
\* when multi-word phrases are detected in it.
C2_TotalIsTokenCount ==
  Returned => result.stats.total = TokenCount(text)

\* C4: an empty or whitespace-only input gives three empty texts, five zero
\* counters and empty wordAnalysis, constructionDetails and phraseMatches,
\* whatever the options.
C4_EmptyInput ==
  (pc = "done" /\ TokenCount(text) = 0) =>
    /\ ~result.threw
    /\ result.translationText = <<>>
    /\ result.phoneticText = <<>>
    /\ result.symbolText = <<>>
    /\ result.stats.direct = 0
    /\ result.stats.partial = 0
    /\ result.stats.missing = 0
    /\ result.stats.constructed = 0
    /\ result.stats.total = 0
    /\ result.wordAnalysis = <<>>
    /\ result.constructionDetails = <<>>
    /\ result.phraseMatches = <<>>

\* A whitespace-only input was translated with phrase checking switched off.
C4_Witness ==
  /\ pc = "done"
  /\ text = S(" \r\n ")
  /\ ~opts.checkPhrases
  /\ result.stats.total = 0

\* C5: translate never throws, whatever the input, the options, and the
\* lexicon and root table (an empty one, or one that lacks letters, included).
C5_NeverThrows == pc = "done" => ~result.threw

\* The leading and the trailing punctuation of a token, and the segments of a
\* text between blanks.
RECURSIVE LeadPunct(_)
LeadPunct(tok) ==
  IF tok # <<>> /\ IsPunct(tok[1]) THEN <<tok[1]>> \o LeadPunct(Tail(tok)) ELSE <<>>

RECURSIVE TrailPunct(_)
TrailPunct(tok) ==
  IF tok # <<>> /\ IsPunct(tok[Len(tok)])
  THEN Append(TrailPunct(SubSeq(tok, 1, Len(tok) - 1)), tok[Len(tok)])
  ELSE <<>>

Segments(txt) == SplitOn(txt, {" "})

\* C7: the leading and trailing punctuation of each token reappears unchanged
\* immediately before and after that token's substitute in translationText:
\* the tokens can be assigned, in order, to segments of translationText (the
\* tokens of one phrase to the same segment) so that each token's segment
\* begins with its leading and ends with its trailing punctuation.
C7_PunctuationPreserved ==
  (Returned /\ TokenCount(text) > 0) =>
    LET toks == TokensOf(text)
        segs == Segments(result.translationText)
    IN  \E f \in [1..Len(toks) -> 1..Len(segs)] :
          /\ \A k \in 1..(Len(toks) - 1) : f[k] <= f[k + 1]
          /\ \A k \in 1..Len(toks) :
               /\ StartsWith(segs[f[k]], LeadPunct(toks[k]))
               /\ EndsWith(segs[f[k]], TrailPunct(toks[k]))

\* The construction details of the words the call left untranslated.
MissingDetails ==
  {result.constructionDetails[k][2] : k \in
     {j \in 1..Len(result.constructionDetails) :
        result.constructionDetails[j][2].method = "missing"}}

\* C8: every word resolved by the missing path appears in translationText as
\* its lower-cased core in one pair of brackets, and that bracketed segment
\* stands unchanged at the same position of phoneticText and symbolText.
C8_BracketInvariant ==
  Returned =>
    LET segsT == Segments(result.translationText)
        segsP == Segments(result.phoneticText)
        segsS == Segments(result.symbolText)
    IN  \A d \in MissingDetails :
          /\ d.result = <<"[">> \o ToLower(d.original) \o <<"]">>
          /\ \E i \in 1..Len(segsT) : Includes(segsT[i], d.result)
          /\ Len(segsP) = Len(segsT)
          /\ Len(segsS) = Len(segsT)
          /\ \A i \in 1..Len(segsT) :
               Includes(segsT[i], d.result) =>
                 Includes(segsP[i], d.result) /\ Includes(segsS[i], d.result)

\* The prefixes the negation asymmetry names.
AsymmetryPrefixes == {S("im"), S("un"), S("non"), S("dis"), S("anti")}

\* C9: for every base word b with a lexicon translation W and every prefix p
\* of im, un, non, dis, anti, translate(p+b) has a translationText that
\* differs from that of translate(b), is not W alone, and has the form G-...
C9_NegationAsymmetry ==
  (pc = "done" /\ opts = defaultOptions) =>
    \A p \in AsymmetryPrefixes :
      \A k \in 1..Len(meaningToWordMap) :
        LET b == meaningToWordMap[k][1]
            W == meaningToWordMap[k][2]
        IN  text = p \o b =>
              /\ ~result.threw
              /\ result.translationText # translate(b, defaultOptions).translationText
              /\ result.translationText # W
              /\ StartsWith(result.translationText, S("G-"))

\* The explanations of the finished call.
Explanations ==
  {result.constructionDetails[k][2].explanation : k \in 1..Len(result.constructionDetails)}

\* C10: a word w that is a negation prefix followed by a lexicon meaning m is
\* never matched to m by the substring-containment step: no explanation of a
\* result reads "m appears in w" for such a pair.
C10_NoFalseSubstringNegation ==
  Returned =>
    \A e \in Explanations :
      e.kind = "Partial match (meaning found in word)" =>
        ~ \E k \in 1..Len(negationPrefixes) :
            /\ MapHas(meaningToWordMap, e.args[1])
            /\ e.args[2] = negationPrefixes[k] \o e.args[1]

\* "ado" is the prefix a before the meaning "do", too short a base for the
\* negation path; the call kept the word instead of matching it to "do".
C10_Witness ==
  /\ pc = "done"
  /\ text = S("ado")
  /\ opts = defaultOptions
  /\ MapHas(meaningToWordMap, S("do"))
  /\ result.translationText = S("Ado")

\* ------------------------------------------------------------------------
\* Inputs that differ in whitespace only
\* ------------------------------------------------------------------------

\* The longest input of the whitespace variants, in tokens.
MaxWsTokens == 2

\* How a token sequence is laid out: what stands before the first token,
\* between two tokens and after the last one.
WsStyle(lead, sep, trail) == [lead |-> S(lead), sep |-> S(sep), trail |-> S(trail)]

WsStyles ==
  {WsStyle("", " ", ""), WsStyle("", "  ", ""), WsStyle("", "\t", ""),
   WsStyle("", "\n", ""), WsStyle(" ", " ", " "), WsStyle("\n\t", " \r\n ", "\t"),
   WsStyle("", " ", "  ")}

WsInputs ==
  {st.lead \o Join(ts, st.sep) \o st.trail : ts \in TokenSeqs(MaxWsTokens), st \in WsStyles}

WsOptions == {o \in Options : o.fuzzyMatching /\ o.pluralHandling /\ o.rootConstruction}

\* A caller invokes translate on some layout of some token sequence.
CallWs ==
  /\ pc = "idle"
  /\ \E t \in WsInputs, o \in WsOptions : text' = t /\ opts' = o
  /\ pc' = "called"
  /\ UNCHANGED <<engine, result, first>>

NextWs == CallWs \/ Translate \/ Return

SpecWs == Init /\ [][NextWs]_vars

\* The same tokens, one blank between two of them and nothing around them.
Canonical(t) == Join(TokensOf(t), S(" "))

\* C3: two inputs that differ only in whitespace (run length, kind of
\* whitespace character, leading or trailing whitespace) normalize to the same
\* token sequence and give the same translationText: every input does so with
\* its single-spaced form.
C3_WhitespaceNormalization ==
  pc = "done" =>
    /\ splitWords(text) = splitWords(Canonical(text))
    /\ result.threw = translate(Canonical(text), opts).threw
    /\ result.translationText = translate(Canonical(text), opts).translationText

\* A two-token input with tabs, line breaks and padding was translated.
C3_Witness ==
  /\ pc = "done"
  /\ text # Canonical(text)
  /\ \E k \in 1..Len(text) : text[k] \in {"\t", "\n", "\r"}
  /\ Len(TokensOf(text)) = 2
  /\ ~result.threw
  /\ result.translationText # <<>>

\* ------------------------------------------------------------------------
\* Repeated calls on one engine
\* ------------------------------------------------------------------------

\* The longest input of the repeated calls, in tokens.
MaxPairTokens == 1

PairInputs == {Join(ts, S(" ")) : ts \in TokenSeqs(MaxPairTokens)} \cup World.words

PairOptions ==
  {defaultOptions,
   [defaultOptions EXCEPT !.checkPhrases = FALSE, !.fuzzyMatching = FALSE]}

CallPair ==
  /\ pc = "idle"
  /\ \E t \in PairInputs, o \in PairOptions : text' = t /\ opts' = o
  /\ pc' = "called"
  /\ UNCHANGED <<engine, result, first>>

\* The caller keeps the outcome of a call, to compare a later one with it.
Remember ==
  /\ pc = "done"
  /\ first = <<>>
  /\ first' = <<[text |-> text, opts |-> opts, result |-> result]>>
  /\ UNCHANGED <<engine, pc, text, opts, result>>

NextPair == CallPair \/ Translate \/ Remember \/ Return

SpecPair == Init /\ [][NextPair]_vars

SameCallAgain ==
  /\ pc = "done"
  /\ first # <<>>
  /\ first[1].text = text
  /\ first[1].opts = opts

ListedWord(m) ==
  LET lists(i) == \E k \in 1..Len(meaningParts(lexiconData[i].meaning)) :
                    meaningParts(lexiconData[i].meaning)[k] = m
      hits == {i \in 1..Len(lexiconData) : lists(i)}
  IN  IF hits = {} THEN <<>>
      ELSE <<lexiconData[CHOOSE i \in hits : \A j \in hits : j <= i].word>>

\* C11: a multi-word input that, compared case-insensitively, equals a
\* lexicon meaning phrase is resolved as one unit: translationText is the
\* entry's target word, stats.direct is 1 and no other category is counted,
\* phraseMatches is the one entry input -> word, and constructionDetails is
\* one entry with method direct (phrase checking enabled).
C11_PhrasePrecedence ==
  (pc = "done" /\ opts.checkPhrases /\ Len(TokensOf(text)) > 1
     /\ ListedWord(ToLower(Canonical(text))) # <<>>) =>
    LET input == Canonical(text)
        word == ListedWord(ToLower(Canonical(text)))[1]
    IN  /\ ~result.threw
        /\ result.translationText = word
        /\ result.stats.direct = 1
        /\ result.stats.partial = 0
        /\ result.stats.constructed = 0
        /\ result.stats.missing = 0
        /\ result.phraseMatches = <<<<input, word>>>>
        /\ Len(result.constructionDetails) = 1
        /\ result.constructionDetails[1][1] = input
        /\ result.constructionDetails[1][2].method = "direct"
        /\ result.constructionDetails[1][2].result = word

\* "with man" is a phrase of the lexicon whose two words have entries of
\* their own; it came back as the phrase's word.
C11_Witness ==
  /\ pc = "done"
  /\ text = S("with man")
  /\ opts = defaultOptions
  /\ MapGet(meaningToWordMap, S("with")) = S("in")
  /\ MapGet(meaningToWordMap, S("man")) = S("ollog")
  /\ result.translationText = S("zir")

\* C12: a multi-letter input word that exactly equals a cleaned lexicon
\* meaning translates to the target word of the last lexicon entry, in table
\* order, that lists the meaning, with stats.direct 1 and no other category
\* counted, whatever the options.
C12_DirectLastEntryWins ==
  (pc = "done" /\ Len(TokensOf(text)) = 1 /\ Len(TokensOf(text)[1]) > 1
     /\ ListedWord(TokensOf(text)[1]) # <<>>) =>
    /\ ~result.threw
    /\ result.translationText = ListedWord(TokensOf(text)[1])[1]
    /\ result.stats.direct = 1
    /\ result.stats.partial = 0
    /\ result.stats.constructed = 0
    /\ result.stats.missing = 0

\* "light" is listed by the first entry (ZIR) and by a later one (OLPIRT);
\* the word cascade, phrase checking off, returned the later entry's word.
C12_Witness ==
  /\ pc = "done"
  /\ text = S("light")
  /\ ~opts.checkPhrases
  /\ Len(lexiconData) > 2
  /\ lexiconData[1].word = S("ZIR")
  /\ S("light") = meaningParts(lexiconData[1].meaning)[2]
  /\ result.translationText = S("OLPIRT")
  /\ result.stats.direct = 1

\* The lexicon gives no match for the word w under the options o: no exact
\* entry, no entry for w without its plural s and, with fuzzy matching
\* enabled, no fuzzy match.
NoLexiconMatch(w, o) ==
  /\ Len(w) > 1
  /\ ~MapHas(meaningToWordMap, w)
  /\ ~(EndsWith(w, S("s")) /\ ~EndsWith(w, S("ss"))
        /\ MapHas(meaningToWordMap, Take(w, Len(w) - 1)))
  /\ (o.fuzzyMatching => findFuzzyMatch(w) = <<>>)

\* C13: a one-word input for which the lexicon gives no match (and which is
\* no phrase match as a whole) translates to its core in brackets, its
\* punctuation kept around it, with stats.missing 1; in particular with
\* fuzzyMatching false for any word without an exact or plural-stripped entry.
C13_NoMatchIsMissing ==
  (pc = "done" /\ Len(TokensOf(text)) = 1 /\ ~AllPunct(TokensOf(text)[1])
     /\ NoLexiconMatch(CoreWord(TokensOf(text)[1]), opts)
     /\ (opts.checkPhrases => checkForPhraseMatch(cleanText(text)) = <<>>)) =>
    /\ ~result.threw
    /\ result.translationText =
         LeadPunct(TokensOf(text)[1]) \o S("[") \o CoreWord(TokensOf(text)[1]) \o S("]")
           \o TrailPunct(TokensOf(text)[1])
    /\ result.stats.missing = 1

\* The core of token k of the input is one letter with a root-table entry.
LetterToken(k) ==
  /\ Len(CoreWord(TokensOf(text)[k])) = 1
  /\ IsLetter(CoreWord(TokensOf(text)[k])[1])
  /\ findRootForLetter(CoreWord(TokensOf(text)[k])) # <<>>

\* C14: in a result without phrase matches, a token whose core is a single
\* letter with a root-table entry stands in translationText and phoneticText
\* as the root's name and in symbolText as the root's glyph, its punctuation
\* around it, with a construction detail of method direct (and direct = 1
\* when it is the only token), also when the lexicon has a meaning equal to
\* the letter; a letter without a root entry takes the lexicon's word.
C14_SingleLetterRoot ==
  (pc = "done" /\ result.phraseMatches = <<>>) =>
    LET toks == TokensOf(text)
        segsT == Segments(result.translationText)
        segsP == Segments(result.phoneticText)
        segsS == Segments(result.symbolText)
    IN  \A k \in 1..Len(toks) :
          /\ LetterToken(k) =>
               LET root == findRootForLetter(CoreWord(toks[k]))[1] IN
               /\ ~result.threw
               /\ Len(segsT) = Len(toks) /\ Len(segsP) = Len(toks) /\ Len(segsS) = Len(toks)
               /\ segsT[k] = LeadPunct(toks[k]) \o root.enochian_name \o TrailPunct(toks[k])
               /\ segsP[k] = LeadPunct(toks[k]) \o root.enochian_name \o TrailPunct(toks[k])
               /\ segsS[k] = LeadPunct(toks[k]) \o root.symbol \o TrailPunct(toks[k])
               /\ MapGet(result.constructionDetails, toks[k]).method = "direct"
               /\ MapGet(result.constructionDetails, toks[k]).result = root.enochian_name
               /\ (Len(toks) = 1 => result.stats.direct = 1)
          /\ (/\ Len(toks) = 1
              /\ Len(CoreWord(toks[k])) = 1 /\ IsLetter(CoreWord(toks[k])[1])
              /\ findRootForLetter(CoreWord(toks[k])) = <<>>
              /\ MapGet(meaningToWordMap, CoreWord(toks[k])) # <<>>) =>
               /\ ~result.threw
               /\ result.translationText = MapGet(meaningToWordMap, CoreWord(toks[k]))
               /\ result.stats.direct = 1

\* C15: with an empty root table and the default options, a single-letter
\* input word without a lexicon entry resolves to missing: translationText
\* is the letter in brackets, stats.missing is 1 and stats.constructed is 0.
C15_LetterWithoutRootIsMissing ==
  (pc = "done" /\ opts = defaultOptions /\ rootData = <<>>
     /\ Len(text) = 1 /\ IsLetter(text[1])
     /\ ~MapHas(meaningToWordMap, ToLower(text))) =>
    /\ ~result.threw
    /\ result.translationText = S("[") \o ToLower(text) \o S("]")
    /\ result.stats.missing = 1
    /\ result.stats.constructed = 0

\* The methods of the construction details of the finished call.
Methods ==
  {result.constructionDetails[k][2].method : k \in 1..Len(result.constructionDetails)}

\* C16: a disabled stage contributes nothing to a result, whatever the other
\* flags are: with fuzzyMatching false stats.partial is 0, no detail has the
\* method partial and translationText holds no G- compound; with
\* rootConstruction false stats.constructed is 0 and no detail has the method
\* constructed; with checkPhrases false phraseMatches is empty, every
\* construction detail belongs to a single token and stats.total counts the
\* tokens (neither the whole-input nor the multi-word phrase match ran).
C16_DisabledStages ==
  Returned =>
    /\ ~opts.fuzzyMatching =>
         /\ result.stats.partial = 0
         /\ "partial" \notin Methods
         /\ ~Includes(result.translationText, S("G-"))
    /\ ~opts.rootConstruction =>
         /\ result.stats.constructed = 0
         /\ "constructed" \notin Methods
    /\ ~opts.checkPhrases =>
         /\ result.phraseMatches = <<>>
         /\ \A k \in 1..Len(result.constructionDetails) :
              \E j \in 1..Len(TokensOf(text)) :
                result.constructionDetails[k][1] = TokensOf(text)[j]
         /\ result.stats.total = TokenCount(text)

\* "immortal" is a negation compound under the default options; with fuzzy
\* matching alone switched off it was built from roots instead.
C16_Witness ==
  /\ pc = "done"
  /\ text = S("immortal")
  /\ opts = [defaultOptions EXCEPT !.fuzzyMatching = FALSE]
  /\ translate(text, defaultOptions).stats.partial = 1
  /\ result.stats.partial = 0
  /\ result.stats.constructed = 1
  /\ result.translationText = S("Immortal")

\* The lexicon match of a remainder: its exact entry, else the first word
\* registered under its stem; <<word>> or <<>>.
NegationTarget(rem) ==
  IF MapGet(meaningToWordMap, rem) # <<>> THEN <<MapGet(meaningToWordMap, rem)>>
  ELSE IF Len(MapGet(stemMap, stemWord(rem))) > 0 THEN <<MapGet(stemMap, stemWord(rem))[1]>>
  ELSE <<>>

\* The word w has an entry of its own, as it stands or without its plural s.
HasOwnEntry(w) ==
  \/ MapHas(meaningToWordMap, w)
  \/ EndsWith(w, S("s")) /\ ~EndsWith(w, S("ss")) /\ MapHas(meaningToWordMap, Take(w, Len(w) - 1))

\* C17: a one-word input made of a negation prefix and a remainder of at
\* least 3 characters with an exact or stemmed lexicon match W, and with no
\* exact or plural-stripped entry of its own, resolves (fuzzy matching
\* enabled) to the compound G-W, classified partial, with a "Negation prefix"
\* explanation; a word whose remainders all have fewer than 3 characters
\* yields no compound.
C17_NegationCompound ==
  (pc = "done" /\ opts.fuzzyMatching /\ Len(TokensOf(text)) = 1
     /\ Len(CoreWord(TokensOf(text)[1])) > 1) =>
    LET tok == TokensOf(text)[1]
        w == CoreWord(tok)
        starts == {k \in 1..Len(negationPrefixes) : StartsWith(w, negationPrefixes[k])}
        rem(k) == Drop(w, Len(negationPrefixes[k]))
    IN  /\ \A k \in starts :
             (Len(rem(k)) >= MinBaseLen /\ NegationTarget(rem(k)) # <<>> /\ ~HasOwnEntry(w)) =>
               /\ ~result.threw
               /\ result.translationText =
                    LeadPunct(tok) \o S("G-") \o NegationTarget(rem(k))[1] \o TrailPunct(tok)
               /\ result.stats.partial = 1
               /\ MapGet(result.constructionDetails, tok).method = "partial"
               /\ MapGet(result.constructionDetails, tok).explanation.kind = "Negation prefix"
        /\ (starts # {} /\ \A k \in starts : Len(rem(k)) < MinBaseLen) =>
             ~Includes(result.translationText, S("G-"))

\* The negation compounds of the finished call: the results of the details
\* explained by a negation prefix.
Compounds ==
  {result.constructionDetails[k][2].result : k \in
     {j \in 1..Len(result.constructionDetails) :
        result.constructionDetails[j][2].explanation.kind = "Negation prefix"}}

AllExact ==
  /\ TokensOf(text) # <<>>
  /\ \A k \in 1..Len(TokensOf(text)) :
       /\ ~AllPunct(TokensOf(text)[k])
       /\ MapHas(meaningToWordMap, CoreWord(TokensOf(text)[k]))

\* C19: for an input in which every token's core word has an exact lexicon
\* entry, translate with fuzzyMatching false and with fuzzyMatching true
\* (the other options alike) give the same translationText: the call at
\* hand and the call with the flag flipped agree.
C19_FuzzyIrrelevantForDirect ==
  (pc = "done" /\ AllExact) =>
    LET Same(flipped) ==
          /\ result.threw = flipped.threw
          /\ result.translationText = flipped.translationText
    IN  Same(translate(text, [opts EXCEPT !.fuzzyMatching = ~opts.fuzzyMatching]))

\* "with man with" holds words with entries only; the call with fuzzy
\* matching off returned what the call with fuzzy matching on returns.
C19_Witness ==
  /\ pc = "done"
  /\ text = S("with man with")
  /\ AllExact
  /\ ~opts.fuzzyMatching
  /\ ~result.threw
  /\ result.translationText = S("zir in")
  /\ translate(text, [opts EXCEPT !.fuzzyMatching = TRUE]).translationText = S("zir in")

\* The words array after the multi-word scan of the input, and its units: an
\* untouched token, or the run of markers that replaced one phrase.
ScannedWords(t) ==
  findMultiWordPhrases(
    [words |-> [k \in 1..Len(splitWords(t)) |-> Plain(splitWords(t)[k])],
     phraseMatches |-> <<>>, constructionDetails |-> <<>>, wordAnalysis |-> <<>>,
     stats |-> ZeroStats]).words

RECURSIVE Units(_, _)
Units(words, k) ==
  IF k > Len(words) THEN <<>>
  ELSE IF words[k].marker /\ k > 1 /\ words[k - 1] = words[k] THEN Units(words, k + 1)
  ELSE <<words[k]>> \o Units(words, k + 1)

\* C20: every phrase the multi-word scan detects stands in translationText
\* exactly once, at the position of its first token, as exactly the target
\* word it was matched to, whatever the target word's letters and however
\* many phrases the input holds: translationText has one segment per unit,
\* and the segment of a phrase is the phrase's target word.
C20_PhraseMarkers ==
  (Returned /\ opts.checkPhrases /\ checkForPhraseMatch(cleanText(text)) = <<>>) =>
    LET units == Units(ScannedWords(text), 1)
        segs == Segments(result.translationText)
    IN  (\E u \in 1..Len(units) : units[u].marker) =>
          /\ Len(segs) = Len(units)
          /\ \A u \in 1..Len(units) : units[u].marker => segs[u] = units[u].s

\* C21: at every start index the scan tries the windows of 4, 3 and 2 tokens
\* (capped by the tokens that remain) and takes the first one accepted: every
\* window the scan recorded has 2 to 4 tokens and carries one marker
\* throughout (no two windows overlap), its word is the match of its phrase
\* and is recorded in phraseMatches, no longer window starting at its index
\* matches, and no token left unmarked starts a matching window (the scan
\* resumed after each matched window).  A window is tried only when none of
\* its tokens is a marker already.
C21_WindowOrder ==
  (Returned /\ opts.checkPhrases /\ checkForPhraseMatch(cleanText(text)) = <<>>) =>
    LET toks == TokensOf(text)
        n == Len(TokensOf(text))
        sw == ScannedWords(text)
        Window(i, j) == Join(SubSeq(toks, i + 1, j), S(" "))
        Matches(i, j) ==
          /\ \A m \in (i + 1)..j : ~StartsWith(toks[m], MarkerPrefix)
          /\ findFuzzyPhraseMatch(Window(i, j)) # <<>>
    IN  /\ Len(sw) = n
        /\ \A k \in 1..n :
             (sw[k].marker /\ ~StartsWith(toks[k], MarkerPrefix)) =>
               /\ sw[k].i < k /\ k <= sw[k].j /\ sw[k].j <= n
               /\ sw[k].j - sw[k].i \in 2..4
               /\ \A m \in (sw[k].i + 1)..sw[k].j : sw[m] = sw[k]
               /\ Matches(sw[k].i, sw[k].j)
               /\ sw[k].s = findFuzzyPhraseMatch(Window(sw[k].i, sw[k].j))[1].enochianWord
               /\ MapGet(result.phraseMatches, Window(sw[k].i, sw[k].j)) = sw[k].s
               /\ \A j2 \in (sw[k].j + 1)..Min(n, sw[k].i + 4) : ~Matches(sw[k].i, j2)
        /\ \A k \in 1..n :
             ~sw[k].marker =>
               \A j2 \in (k + 1)..Min(n, k + 3) : ~Matches(k - 1, j2)

\* In "ww x y z" both "x y" and "x y z" are phrases starting at the second
\* token; the call recorded the longer one.
C21_Witness ==
  /\ Returned
  /\ text = S("ww x y z")
  /\ opts = defaultOptions
  /\ findFuzzyPhraseMatch(S("x y")) # <<>>
  /\ result.phraseMatches = <<<<S("x y z"), S("TRIO")>>>>
  /\ result.translationText = S("Ww TRIO")

\* The tokens of the finished call that are not part of a detected phrase.
LooseTokens ==
  IF ~opts.checkPhrases THEN TokensOf(text)
  ELSE IF checkForPhraseMatch(cleanText(text)) # <<>> THEN <<>>
  ELSE LET sw == ScannedWords(text)
       IN  SelectSeq([k \in 1..Len(sw) |-> IF sw[k].marker THEN <<>> ELSE sw[k].s],
                     LAMBDA w : w # <<>>)

\* C22: after translate on a non-empty input, constructionDetails holds an
\* entry for every input token that is not part of a detected phrase and an
\* entry for every detected phrase, no key twice, and the method of every
\* entry is one of direct, partial, constructed, missing.
C22_OneDetailPerUnit ==
  (Returned /\ TokenCount(text) > 0) =>
    /\ \A k \in 1..Len(LooseTokens) : MapHas(result.constructionDetails, LooseTokens[k])
    /\ \A k \in 1..Len(result.phraseMatches) :
         MapHas(result.constructionDetails, result.phraseMatches[k][1])
    /\ \A a, b \in 1..Len(result.constructionDetails) :
         result.constructionDetails[a][1] = result.constructionDetails[b][1] => a = b
    /\ Methods \subseteq {"direct", "partial", "constructed", "missing"}

\* The units of the finished call in output order: one per detected phrase
\* and one per token outside the phrases.
OutputUnits ==
  IF opts.checkPhrases THEN Units(ScannedWords(text), 1)
  ELSE [k \in 1..Len(TokensOf(text)) |-> Plain(TokensOf(text)[k])]

\* C23: phoneticText and symbolText are translationText with every resolved
\* word replaced, token by token, by its own rendering: the segment of a
\* token outside the phrases is the rendering that token gets when it is
\* translated alone, the segment of a phrase is the letter-by-letter
\* rendering of its target word, and no segment is altered by the
\* substitution made for another word.
C23_TokenwiseRendering ==
  (Returned /\ TokenCount(text) > 0) =>
    IF opts.checkPhrases /\ checkForPhraseMatch(cleanText(text)) # <<>>
    THEN /\ result.phoneticText = convertToPhonetic(result.translationText)
         /\ result.symbolText = convertToSymbols(result.translationText)
    ELSE LET u == OutputUnits
             seg == Segments(result.translationText)
             TokenAlone(tok) == translate(tok, [opts EXCEPT !.checkPhrases = FALSE])
         IN  Len(seg) = Len(u) =>
               /\ result.phoneticText =
                    Join([k \in 1..Len(u) |->
                            IF u[k].marker THEN convertToPhonetic(seg[k])
                            ELSE TokenAlone(u[k].s).phoneticText], S(" "))
               /\ result.symbolText =
                    Join([k \in 1..Len(u) |->
                            IF u[k].marker THEN convertToSymbols(seg[k])
                            ELSE TokenAlone(u[k].s).symbolText], S(" "))

\* C24: a negation compound G-rest renders as the root name of the letter g,
\* a hyphen and the phonetic rendering of rest, and as the glyph of g, a
\* hyphen and the symbols of rest, whatever the root table is; a result that
\* consists of the compound has these renderings.
C24_CompoundRendering ==
  Returned =>
    \A c \in Compounds :
      StartsWith(c, S("G-")) =>
        /\ MapHas(enochianLetterMap, S("g"))
        /\ LET g == MapGet(enochianLetterMap, S("g"))
               phonetic == g.name \o S("-") \o convertToPhonetic(Drop(c, 2))
               symbols == g.symbol \o S("-") \o convertToSymbols(Drop(c, 2))
           IN  /\ convertToPhonetic(c) = phonetic
               /\ convertToSymbols(c) = symbols
               /\ result.translationText = c =>
                    result.phoneticText = phonetic /\ result.symbolText = symbols

\* C25: for every token or phrase resolved by a method other than missing,
\* wordAnalysis has an entry keyed by the resolved target word, and that
\* entry is a non-empty list.
C25_AnalysisNonEmpty ==
  Returned =>
    \A k \in 1..Len(result.constructionDetails) :
      LET d == result.constructionDetails[k][2] IN
      d.method # "missing" =>
        /\ MapHas(result.wordAnalysis, d.result)
        /\ Len(MapGet(result.wordAnalysis, d.result)) >= 1

\* The meanings of meaningToWordMap that contain w or are contained in it
\* (a meaning that w extends by a negation prefix left out), by position.
SubstringCandidates(w) ==
  {i \in 1..Len(meaningToWordMap) :
     LET meaning == meaningToWordMap[i][1] IN
     /\ Includes(meaning, w) \/ Includes(w, meaning)
     /\ ~(Includes(w, meaning) /\ hasNegationPrefix(w, meaning))}

\* Shorter length and longer length of w and the i-th meaning.
RatioNum(w, i) == Min(Len(w), Len(meaningToWordMap[i][1]))
RatioDen(w, i) ==
  IF Len(w) > Len(meaningToWordMap[i][1]) THEN Len(w) ELSE Len(meaningToWordMap[i][1])

\* The candidates of the highest ratio.
TopCandidates(w) ==
  {i \in SubstringCandidates(w) :
     \A j \in SubstringCandidates(w) :
       RatioNum(w, i) * RatioDen(w, j) >= RatioNum(w, j) * RatioDen(w, i)}

\* C26: the fuzzy step answers with the negation-prefix match when there is
\* one; otherwise with the first word registered for the stem when there is
\* one; otherwise with the word of the substring candidate of the highest
\* shorter/longer ratio, the first in table order among equal ratios, and
\* only when that ratio is strictly greater than 0.5; otherwise with
\* nothing.  Every detail explained by the fuzzy step carries that answer.
C26_FuzzyOrder ==
  pc = "done" =>
    /\ \A w \in {CoreWord(TokensOf(text)[k]) :
                   k \in {j \in 1..Len(TokensOf(text)) : ~AllPunct(TokensOf(text)[j])}} :
         LET neg == handleNegationPrefixes(w)
             stems == MapGet(stemMap, stemWord(w))
             top == TopCandidates(w)
             earliest == CHOOSE i \in top : \A j \in top : i <= j
             got == findFuzzyMatch(w)
         IN  IF neg # <<>> THEN got = neg
             ELSE IF Len(stems) > 0
             THEN got # <<>> /\ got[1].word = stems[1]
                  /\ got[1].explanation.kind = "Partial match via stemming"
             ELSE IF top # {} /\ 2 * RatioNum(w, earliest) > RatioDen(w, earliest)
             THEN got # <<>> /\ got[1].word = meaningToWordMap[earliest][2]
                  /\ got[1].explanation.kind \in
                       {"Partial match (word found in meaning)",
                        "Partial match (meaning found in word)"}
             ELSE got = <<>>
    /\ ~result.threw =>
         \A k \in 1..Len(result.constructionDetails) :
           LET d == result.constructionDetails[k][2] IN
           d.explanation.kind \in
               {"Partial match via stemming", "Partial match (word found in meaning)",
                "Partial match (meaning found in word)"} =>
             /\ findFuzzyMatch(d.original) # <<>>
             /\ d.result = findFuzzyMatch(d.original)[1].word
             /\ d.explanation = findFuzzyMatch(d.original)[1].explanation

\* "am" is contained in the meaning "i am" with a ratio of exactly 0.5 and in
\* no other meaning: the fuzzy step answered with nothing and the word was
\* resolved by a later stage.
C26_Witness ==
  /\ Returned
  /\ text = S("am")
  /\ opts.fuzzyMatching
  /\ handleNegationPrefixes(S("am")) = <<>>
  /\ MapGet(stemMap, stemWord(S("am"))) = <<>>
  /\ \E i \in TopCandidates(S("am")) : 2 * RatioNum(S("am"), i) = RatioDen(S("am"), i)
  /\ findFuzzyMatch(S("am")) = <<>>
  /\ result.stats.partial = 0

\* C27: every key of phraseMatches is an input span of at least two tokens
\* that was matched against a multi-word lexicon meaning, and an input of
\* one token has no phraseMatches entry.
C27_PhraseKeysMultiWord ==
  Returned =>
    /\ \A k \in 1..Len(result.phraseMatches) :
         LET key == result.phraseMatches[k][1] IN
         /\ Len(TokensOf(key)) >= 2
         /\ findFuzzyPhraseMatch(key) # <<>>
         /\ Includes(findFuzzyPhraseMatch(key)[1].match, S(" "))
    /\ TokenCount(text) = 1 => result.phraseMatches = <<>>

\* C28: a token resolved by the second-chance lexicon check of root
\* construction (the word equals a meaning or is a whole word inside one)
\* becomes that entry's lexicon word and is not classified as constructed:
\* its detail has another method, and a call whose details all come from
\* that check counts no constructed word.
C28_SecondChanceNotConstructed ==
  Returned =>
    /\ \A k \in 1..Len(result.constructionDetails) :
         LET d == result.constructionDetails[k][2] IN
         d.explanation.kind = "Found in lexicon" =>
           /\ d.result = constructWordFromRoots(d.original)[1].word
           /\ d.method # "constructed"
    /\ (result.constructionDetails # <<>>
        /\ \A k \in 1..Len(result.constructionDetails) :
             result.constructionDetails[k][2].explanation.kind = "Found in lexicon")
         => result.stats.constructed = 0

\* C29: with root construction enabled, a token whose word has no lexicon
\* match of any kind becomes the word itself with its first letter in upper
\* case and the rest in lower case, classified constructed, and its segments
\* of phoneticText and symbolText are the names of the root entries of the
\* word's own letters joined by '-' and their glyphs concatenated, within
\* the token's punctuation.
C29_PreservedWord ==
  (Returned /\ opts.rootConstruction) =>
    LET u == OutputUnits
        segT == Segments(result.translationText)
        segP == Segments(result.phoneticText)
        segS == Segments(result.symbolText)
    IN  \A k \in 1..Len(u) :
          (~u[k].marker /\ ~AllPunct(u[k].s) /\ NoLexiconMatch(CoreWord(u[k].s), opts)
             /\ FirstSingleWordMatch(CoreWord(u[k].s)) = 0) =>
            LET tok == u[k].s
                w == CoreWord(u[k].s)
                roots == RootsOf(CoreWord(u[k].s), TRUE)
            IN  /\ MapHas(result.constructionDetails, tok)
                /\ MapGet(result.constructionDetails, tok).result = Capitalize(w)
                /\ MapGet(result.constructionDetails, tok).method = "constructed"
                /\ Len(segT) = Len(u) /\ Len(segP) = Len(u) /\ Len(segS) = Len(u)
                /\ segT[k] = LeadPunct(tok) \o Capitalize(w) \o TrailPunct(tok)
                /\ segP[k] = LeadPunct(tok)
                               \o Join([i \in 1..Len(roots) |-> roots[i].enochian_name], S("-"))
                               \o TrailPunct(tok)
                /\ segS[k] = LeadPunct(tok)
                               \o Join([i \in 1..Len(roots) |-> roots[i].symbol], <<>>)
                               \o TrailPunct(tok)

\* C30: translationText does not depend on the letter case of the input: the
\* finished call and the call on the lower-cased input with the same options
\* agree on it (and on throwing).
C30_CaseInsensitive ==
  pc = "done" =>
    LET Same(lower) ==
          /\ lower.threw = result.threw
          /\ lower.translationText = result.translationText
    IN  Same(translate(ToLower(text), opts))

====
